---------------------------- MODULE Spec2Model ----------------------------
(***************************************************************************)
(* A model of github.com/subomi/requestmigrations (requestmigrations.go,   *)
(* version.go, helpers.go): the migration registry, the static and the     *)
(* runtime graph builder, the graph cache, the forward and the backward    *)
(* traversal and the Migrator facade.                                      *)
(*                                                                         *)
(* Go types are named by their Go spelling ("*CustomUser"); TypeTable      *)
(* holds what reflect reports about each.  A live Go value is a record     *)
(* [t, k, s, c]; a decoded JSON document (map[string]any / []any / scalar  *)
(* / nil) is a record [k, s, h, n, c], where h lists the user migration    *)
(* functions that have been applied to that node, in order.                *)
(***************************************************************************)
EXTENDS Integers, Sequences, FiniteSets, TLC

VARIABLES
    app,            \* the application: which types, migrations and payloads it has
    ctor,           \* "none" before NewRequestMigration, then "ok" or its error
    opts,           \* rm.opts
    versions,       \* rm.versions
    migrations,     \* rm.migrations: type -> version -> migration
    graphCache,     \* rm.graphCache: <<type, version>> -> graph
    built,          \* rm.built
    err,            \* rm.err
    registerCalls,  \* the Register calls made so far
    requests,       \* the For calls made so far
    ret,            \* the last call of the API: [op, arg, err]
    migrator,       \* the Migrator that the last successful For returned
    out,            \* what the last Marshal or Unmarshal did
    graphFrom,      \* where the last Marshal or Unmarshal took its graph from
    goroutines,     \* the goroutines that share rm: their position and locals
    crashed         \* the runtime ended the process (fatal error)

vars == <<app, ctor, opts, versions, migrations, graphCache, built, err,
          registerCalls, requests, ret, migrator, out, graphFrom, goroutines,
          crashed>>

\* What the calls of one goroutine after another leave alone.
concVars == <<goroutines, crashed>>

(***************************************************************************)
(* Bounds of the model.                                                    *)
(***************************************************************************)
\* Register calls made on one instance.
MaxRegisterCalls == 2
\* Requests served (For calls) by one instance.
MaxRequests == 1
\* walkType frames after which a build is cut off and flagged (overflow).
DepthCap == 8

Nil == "nil"
NoErr == ""

(***************************************************************************)
(* reflect: the types the modelled applications declare.                   *)
(***************************************************************************)
Fld(name, set, first, type) ==
    [Name |-> name, TagSet |-> set, TagFirst |-> first, Type |-> type]

Ty(kind, pkg, elem, fields) ==
    [Kind |-> kind, PkgPath |-> pkg, Elem |-> elem, Fields |-> fields]

Builtin(kind) == Ty(kind, "", Nil, <<>>)
PtrTo(elem) == Ty("ptr", "", elem, <<>>)
SliceOf(elem) == Ty("slice", "", elem, <<>>)
StructOf(fields) == Ty("struct", "app", Nil, fields)

TypeTable ==
    ("string" :> Builtin("string"))
 @@ ("int" :> Builtin("int"))
 @@ ("interface{}" :> Builtin("interface"))
 @@ ("error" :> Builtin("interface"))
 @@ ("[]string" :> SliceOf("string"))
 @@ ("map[string]string" :> Ty("map", "", "string", <<>>))
 @@ ("AddressString" :> Ty("string", "app", Nil, <<>>))
 @@ ("NamedSlice" :> Ty("slice", "app", "string", <<>>))
 @@ ("NamedMap" :> Ty("map", "app", "int", <<>>))
 @@ ("CustomUser" :> StructOf(<<Fld("Address", TRUE, "address", "AddressString")>>))
 @@ ("*CustomUser" :> PtrTo("CustomUser"))
 @@ ("[]CustomUser" :> SliceOf("CustomUser"))
 @@ ("*[]CustomUser" :> PtrTo("[]CustomUser"))
 @@ ("CyclicUser" :> StructOf(<<Fld("Name", TRUE, "name", "string"),
                                Fld("Workspace", TRUE, "workspace", "*CyclicWorkspace")>>))
 @@ ("*CyclicUser" :> PtrTo("CyclicUser"))
 @@ ("[]*CyclicUser" :> SliceOf("*CyclicUser"))
 @@ ("CyclicWorkspace" :> StructOf(<<Fld("Title", TRUE, "title", "string"),
                                     Fld("Users", TRUE, "users", "[]*CyclicUser")>>))
 @@ ("*CyclicWorkspace" :> PtrTo("CyclicWorkspace"))
 @@ ("NodeA" :> StructOf(<<Fld("Next", TRUE, "next", "*NodeA"),
                           Fld("Tag", TRUE, "tag", "AddressString")>>))
 @@ ("*NodeA" :> PtrTo("NodeA"))
 @@ ("NodeB" :> StructOf(<<Fld("Tag", TRUE, "tag", "AddressString"),
                           Fld("Next", TRUE, "next", "*NodeB")>>))
 @@ ("*NodeB" :> PtrTo("NodeB"))
 @@ ("PagedResponse" :> StructOf(<<Fld("Content", TRUE, "content", "interface{}"),
                                   Fld("Page", TRUE, "page", "int")>>))
 @@ ("*PagedResponse" :> PtrTo("PagedResponse"))
 @@ ("[]*PagedResponse" :> SliceOf("*PagedResponse"))
 @@ ("EndpointResponse" :> StructOf(<<Fld("Name", TRUE, "name", "string")>>))
 @@ ("*EndpointResponse" :> PtrTo("EndpointResponse"))
 @@ ("[]EndpointResponse" :> SliceOf("EndpointResponse"))
 @@ ("[]*EndpointResponse" :> SliceOf("*EndpointResponse"))
 @@ ("UnregisteredType" :> StructOf(<<Fld("Foo", TRUE, "foo", "string")>>))
 @@ ("StaticOne" :> StructOf(<<Fld("Content", TRUE, "content", "EndpointResponse"),
                               Fld("Page", TRUE, "page", "int")>>))
 @@ ("*StaticOne" :> PtrTo("StaticOne"))
 @@ ("StaticMany" :> StructOf(<<Fld("Content", TRUE, "content", "[]EndpointResponse"),
                                Fld("Page", TRUE, "page", "int")>>))
 @@ ("*StaticMany" :> PtrTo("StaticMany"))
 @@ ("StaticPtrs" :> StructOf(<<Fld("Content", TRUE, "content", "[]*EndpointResponse"),
                                Fld("Page", TRUE, "page", "int")>>))
 @@ ("*StaticPtrs" :> PtrTo("StaticPtrs"))
 @@ ("StaticPaged" :> StructOf(<<Fld("Content", TRUE, "content", "[]*PagedResponse"),
                                 Fld("Page", TRUE, "page", "int")>>))
 @@ ("*StaticPaged" :> PtrTo("StaticPaged"))
 @@ ("StaticNone" :> StructOf(<<Fld("Content", TRUE, "content", "UnregisteredType"),
                                Fld("Page", TRUE, "page", "int")>>))
 @@ ("*StaticNone" :> PtrTo("StaticNone"))
 @@ ("OptionalUser" :> StructOf(<<Fld("Address", TRUE, "", "AddressString")>>))
 @@ ("*OptionalUser" :> PtrTo("OptionalUser"))
 @@ ("PlainUser" :> StructOf(<<Fld("Address", FALSE, "", "AddressString")>>))
 @@ ("*PlainUser" :> PtrTo("PlainUser"))
 @@ ("time.Time" :> Ty("struct", "time", Nil, <<>>))
 @@ ("profile" :> StructOf(<<Fld("UID", TRUE, "uid", "string"),
                             Fld("GithubURL", TRUE, "github_url", "string"),
                             Fld("TwitterURL", TRUE, "twitter_url", "string")>>))
 @@ ("*profile" :> PtrTo("profile"))
 @@ ("User" :> StructOf(<<Fld("UID", TRUE, "uid", "string"),
                          Fld("Email", TRUE, "email", "string"),
                          Fld("FirstName", TRUE, "first_name", "string"),
                          Fld("LastName", TRUE, "last_name", "string"),
                          Fld("Profile", TRUE, "profile", "*profile"),
                          Fld("CreatedAt", TRUE, "created_at", "time.Time"),
                          Fld("UpdatedAt", TRUE, "updated_at", "time.Time")>>))
 @@ ("*User" :> PtrTo("User"))
 @@ ("[]*User" :> SliceOf("*User"))

Kind(t) == TypeTable[t].Kind
Elem(t) == TypeTable[t].Elem
PkgPath(t) == TypeTable[t].PkgPath
NumField(t) == Len(TypeTable[t].Fields)
Field(t, i) == TypeTable[t].Fields[i]

(***************************************************************************)
(* helpers.go                                                              *)
(***************************************************************************)
RECURSIVE dereferenceToLastPtr(_)
dereferenceToLastPtr(t) ==
    IF Kind(t) = "ptr" /\ Kind(Elem(t)) = "ptr"
    THEN dereferenceToLastPtr(Elem(t))
    ELSE t

\* for t.Kind() == reflect.Ptr { t = t.Elem() }
RECURSIVE derefAll(_)
derefAll(t) == IF Kind(t) = "ptr" THEN derefAll(Elem(t)) ELSE t

\* Returns [found, visited]: the visited map is shared by the whole recursion.
RECURSIVE typeHasInterfaceFieldsRecursive(_, _)
RECURSIVE interfaceInFields(_, _, _)
typeHasInterfaceFieldsRecursive(t0, visited) ==
    LET t == derefAll(t0) IN
    IF t \in visited THEN [found |-> FALSE, visited |-> visited]
    ELSE LET vis == visited \cup {t} IN
         CASE Kind(t) = "interface" -> [found |-> TRUE, visited |-> vis]
           [] Kind(t) = "struct" -> interfaceInFields(t, 1, vis)
           [] Kind(t) \in {"slice", "array"} ->
                typeHasInterfaceFieldsRecursive(Elem(t), vis)
           \* map: the key types of the modelled maps are strings
           [] Kind(t) = "map" -> typeHasInterfaceFieldsRecursive(Elem(t), vis)
           [] OTHER -> [found |-> FALSE, visited |-> vis]

interfaceInFields(t, i, visited) ==
    IF i > NumField(t) THEN [found |-> FALSE, visited |-> visited]
    ELSE LET r == typeHasInterfaceFieldsRecursive(Field(t, i).Type, visited) IN
         IF r.found THEN r ELSE interfaceInFields(t, i + 1, r.visited)

\* A check that finds no interface field in any type.
noInterfaceFields(t) == FALSE

typeHasInterfaceFields(t) == typeHasInterfaceFieldsRecursive(t, {}).found

(***************************************************************************)
(* version.go.  time.Parse(time.DateOnly, s) and semver.NewVersion(s) are  *)
(* library calls: the tables give, for the version strings the modelled    *)
(* applications use, the position of the parsed value in the order of its  *)
(* format, and -1 where the library returns an error.                      *)
(***************************************************************************)
DateFormat == "date"
SemverFormat == "semver"

ParseDate(s) ==
    CASE s = "0001-01-01" -> 0
      [] s = "2023-01-01" -> 1
      [] s = "2023-02-01" -> 2
      [] s = "2023-03-01" -> 3
      [] s = "2023-06-01" -> 4
      [] s = "2024-01-01" -> 5
      [] OTHER -> -1

ParseSemver(s) ==
    CASE s = "v0" -> 0
      [] s = "v1" -> 1
      [] s = "v2" -> 2
      [] s = "v3" -> 3
      [] OTHER -> -1

Parse(format, s) ==
    CASE format = SemverFormat -> ParseSemver(s)
      [] format = DateFormat -> ParseDate(s)
      [] OTHER -> -1

\* Version.IsValid: a format that is neither date nor semver falls through
\* the switch.
IsValid(format, s) ==
    CASE format = SemverFormat -> ParseSemver(s) # -1
      [] format = DateFormat -> ParseDate(s) # -1
      [] OTHER -> TRUE

\* Version.Equal
Equal(format, v, vv) ==
    /\ format \in {SemverFormat, DateFormat}
    /\ Parse(format, v) # -1
    /\ Parse(format, vv) # -1
    /\ Parse(format, v) = Parse(format, vv)

\* Version.isOlderThan(vv): v is older than vv; a value that does not parse
\* is not comparable.
isOlderThan(format, v, vv) ==
    /\ format \in {SemverFormat, DateFormat}
    /\ Parse(format, v) # -1
    /\ Parse(format, vv) # -1
    /\ Parse(format, v) < Parse(format, vv)

\* dateVersionSorter / semVerSorter: less(i, j) on the slice being sorted.
versionLess(format, v, vv) ==
    /\ Parse(format, v) # -1
    /\ Parse(format, vv) # -1
    /\ Parse(format, v) < Parse(format, vv)

\* sort.Slice on a slice of at most 12 elements is an insertion sort:
\* for i := 1; i < n; i++ { for j := i; j > 0 && less(j, j-1); j-- { swap } }
RECURSIVE sinkDown(_, _, _)
sinkDown(format, s, j) ==
    IF j > 1 /\ versionLess(format, s[j], s[j - 1])
    THEN sinkDown(format, [s EXCEPT ![j] = s[j - 1], ![j - 1] = s[j]], j - 1)
    ELSE s

RECURSIVE insertionSortFrom(_, _, _)
insertionSortFrom(format, s, i) ==
    IF i > Len(s) THEN s
    ELSE insertionSortFrom(format, sinkDown(format, s, i), i + 1)

sortVersions(format, s) == insertionSortFrom(format, s, 2)

(***************************************************************************)
(* The registry.  A registry value rm is [format, versions, migrations]:   *)
(* opts.VersionFormat, rm.versions and rm.migrations (type -> version ->   *)
(* migration) of RequestMigration.                                         *)
(***************************************************************************)
Registry(format, vs, ms) == [format |-> format, versions |-> vs, migrations |-> ms]

\* The versions FindMigrationsForType does not skip.
RECURSIVE collectMigrations(_, _, _, _)
collectMigrations(rm, typeHistory, userVersion, i) ==
    IF i > Len(rm.versions) THEN <<>>
    ELSE LET v == rm.versions[i]
             rest == collectMigrations(rm, typeHistory, userVersion, i + 1)
         IN IF Equal(rm.format, v, userVersion) \/ isOlderThan(rm.format, v, userVersion)
            THEN rest
            ELSE IF v \in DOMAIN typeHistory
                 THEN <<typeHistory[v]>> \o rest
                 ELSE rest

\* A finder that finds no migration for any type.
findNothing(rm, t, userVersion) == <<>>

FindMigrationsForType(rm, t, userVersion) ==
    IF t \notin DOMAIN rm.migrations THEN <<>>
    ELSE collectMigrations(rm, rm.migrations[t], userVersion, 1)

\* A check of the type that accepts every type.
acceptAnyType(t) == TRUE

isValidMigrationType(t) == PkgPath(derefAll(t)) # ""

\* registerTypeMigration: the new [versions, migrations].
registerTypeMigration(vs, ms, version, t, m) ==
    LET versionKnown == \E i \in 1..Len(vs) : vs[i] = version
        vs1 == IF versionKnown THEN vs ELSE Append(vs, version)
        hist == IF t \in DOMAIN ms THEN ms[t] ELSE <<>>
    IN [versions |-> vs1,
        migrations |-> (t :> ((version :> m) @@ hist)) @@ ms]

(***************************************************************************)
(* Type graphs.  The *typeGraph objects of one build live in a heap        *)
(* (nodes): a node is addressed by its index, Fields maps a field key to   *)
(* the index of the child.  A graph is [nodes, root].                      *)
(***************************************************************************)
ElemKey == "__elem"

GraphNode(t, ms) == [Type |-> t, Fields |-> <<>>, Migrations |-> ms]

Max(a, b) == IF a >= b THEN a ELSE b

\* typeGraph.HasMigrations.  The Go loop ranges over the Fields map and returns
\* true at the first child that has migrations; whenever it returns, it returns
\* whether a node with migrations is reachable.  seen keeps the evaluation
\* finite on a graph whose field maps form a cycle.
RECURSIVE hasMigrationsFrom(_, _, _)
hasMigrationsFrom(nodes, g, seen) ==
    \/ Len(nodes[g].Migrations) > 0
    \/ \E k \in DOMAIN nodes[g].Fields :
          LET c == nodes[g].Fields[k] IN
          /\ c \notin seen
          /\ hasMigrationsFrom(nodes, c, seen \cup {c})

HasMigrations(nodes, g) == hasMigrationsFrom(nodes, g, {g})

\* graph.Fields[name] = child
attach(b, g, name, child) ==
    [b EXCEPT !.nodes[g].Fields = (name :> child) @@ @]

\* name := field.Name; if tag := field.Tag.Get("json"); tag != "" {
\*     name = strings.Split(tag, ",")[0] }
graphFieldName(field) == IF field.TagSet THEN field.TagFirst ELSE field.Name

\* A builder state b is [nodes, visited, depth, maxDepth, overflow]: the heap,
\* the visited map (type -> node) of the running build, the number of walkType
\* calls that are expanding a type, its maximum, and whether the walk was cut
\* off at DepthCap.
NewBuild(nodes) ==
    [nodes |-> nodes, visited |-> <<>>, depth |-> 0, maxDepth |-> 0,
     overflow |-> FALSE]

\* A visited map that is never hit.
visitedNever(b, t) == FALSE

\* if g, ok := visited[t]; ok { return g, nil }
visitedHit(b, t) == t \in DOMAIN b.visited

\* A walk returns the builder state and the node it built.
Walked(b, g) == [b |-> b, g |-> g]

\* A builder that attaches every child.
attachAlways(r, g, name) == attach(r.b, g, name, r.g)

\* if fieldGraph.HasMigrations() { graph.Fields[name] = fieldGraph }, on the
\* result r of the walk of the child.
attachIfMigrations(r, g, name) ==
    IF HasMigrations(r.b.nodes, r.g) THEN attach(r.b, g, name, r.g) ELSE r.b

\* graph := &typeGraph{...}; visited[t] = graph; graph.Migrations = ...
enter(b, t, node) ==
    [b EXCEPT !.nodes = Append(@, node),
              !.visited = (t :> (Len(b.nodes) + 1)) @@ @,
              !.depth = @ + 1,
              !.maxDepth = Max(@, b.depth + 1)]

\* return graph, nil
leave(b, g, depth) == Walked([b EXCEPT !.depth = depth], g)

RECURSIVE walkType(_, _, _, _)
RECURSIVE walkTypeFields(_, _, _, _, _, _)
\* case reflect.Slice, reflect.Array
walkTypeElem(rm, t, userVersion, b, g) ==
    IF Kind(t) \in {"slice", "array"}
    THEN attachIfMigrations(walkType(rm, Elem(t), userVersion, b), g, ElemKey)
    ELSE b

\* case reflect.Struct
walkTypeStruct(rm, t, userVersion, b, g) ==
    IF Kind(t) = "struct" THEN walkTypeFields(rm, t, 1, userVersion, b, g) ELSE b

\* The switch on t.Kind(), on the builder b that holds the new node g.
walkTypeKind(rm, t, userVersion, b, g, depth) ==
    IF b.depth > DepthCap
    THEN Walked([b EXCEPT !.overflow = TRUE, !.depth = depth], g)
    ELSE leave(walkTypeStruct(rm, t, userVersion,
                              walkTypeElem(rm, t, userVersion, b, g), g),
               g, depth)

\* walkType after if t.Kind() == reflect.Ptr { t = t.Elem() }
walkTypeDereferenced(rm, t, userVersion, b) ==
    IF visitedHit(b, t) THEN Walked(b, b.visited[t])
    ELSE walkTypeKind(rm, t, userVersion,
                      enter(b, t, GraphNode(t, FindMigrationsForType(rm, t, userVersion))),
                      Len(b.nodes) + 1, b.depth)

walkType(rm, t, userVersion, b) ==
    walkTypeDereferenced(rm, IF Kind(t) = "ptr" THEN Elem(t) ELSE t, userVersion, b)

walkTypeFields(rm, t, i, userVersion, b, g) ==
    IF i > NumField(t) THEN b
    ELSE walkTypeFields(rm, t, i + 1, userVersion,
                        attachIfMigrations(walkType(rm, Field(t, i).Type, userVersion, b),
                                           g, graphFieldName(Field(t, i))),
                        g)

\* buildFromType on the heap nodes: a fresh visited map.  [b, g].
buildFromTypeOn(rm, t, userVersion, nodes) ==
    walkType(rm, dereferenceToLastPtr(t), userVersion, NewBuild(nodes))

\* A graph with the facts of its build: [nodes, root, maxDepth, overflow, types].
Graph(r) ==
    [nodes |-> r.b.nodes, root |-> r.g, maxDepth |-> r.b.maxDepth,
     overflow |-> r.b.overflow, types |-> DOMAIN r.b.visited]

buildFromType(rm, t, userVersion) == Graph(buildFromTypeOn(rm, t, userVersion, <<>>))

(***************************************************************************)
(* Live values (reflect.Value).  [t, k, s, c]: t the static type of the    *)
(* value, k one of "nil", "scalar", "struct", "ptr", "slice", "iface"; c   *)
(* the field values, the pointee, the elements, the value held.            *)
(***************************************************************************)
NilOf(t) == [t |-> t, k |-> "nil", s |-> "", c |-> <<>>]
Scalar(t, s) == [t |-> t, k |-> "scalar", s |-> s, c |-> <<>>]
StructVal(t, fs) == [t |-> t, k |-> "struct", s |-> "", c |-> fs]
PtrVal(t, v) == [t |-> t, k |-> "ptr", s |-> "", c |-> <<v>>]
SliceVal(t, es) == [t |-> t, k |-> "slice", s |-> "", c |-> es]
IfaceVal(v) == [t |-> "interface{}", k |-> "iface", s |-> "", c |-> <<v>>]
NilIface == NilOf("interface{}")

IsNilValue(v) == v.k = "nil"

\* The graph r that buildFromType built, stored on the heap of b.
onHeap(b, r) == Walked([b EXCEPT !.nodes = r.b.nodes], r.g)

\* graph := &typeGraph{...}; visited[t] = graph; graph.Migrations = ...
enterValue(b, t, node) ==
    [b EXCEPT !.nodes = Append(@, node),
              !.visited = (t :> (Len(b.nodes) + 1)) @@ @]

\* elemValue := v.Index(0); if elemValue.Kind() == reflect.Interface &&
\*     !elemValue.IsNil() { elemValue = elemValue.Elem() }
firstElem(first) ==
    IF Kind(first.t) = "interface" /\ ~IsNilValue(first) THEN first.c[1] ELSE first

RECURSIVE walkValue(_, _, _, _)
RECURSIVE walkValueFields(_, _, _, _, _, _)
\* case reflect.Slice, reflect.Array: the first element only
walkValueElem(rm, v, userVersion, b, g) ==
    IF Kind(v.t) \in {"slice", "array"} /\ ~IsNilValue(v) /\ Len(v.c) > 0
    THEN attachIfMigrations(walkValue(rm, firstElem(v.c[1]), userVersion, b), g, ElemKey)
    ELSE b

\* case reflect.Struct
walkValueStruct(rm, v, userVersion, b, g) ==
    Walked(IF Kind(v.t) = "struct"
           THEN walkValueFields(rm, v, 1, userVersion, b, g)
           ELSE b,
           g)

\* walkValue on a value that is not a pointer
walkValueDereferenced(rm, v, userVersion, b) ==
    IF visitedHit(b, v.t) THEN Walked(b, b.visited[v.t])
    ELSE IF ~typeHasInterfaceFields(v.t)
    THEN onHeap(b, buildFromTypeOn(rm, v.t, userVersion, b.nodes))
    ELSE walkValueStruct(
           rm, v, userVersion,
           walkValueElem(
             rm, v, userVersion,
             enterValue(b, v.t,
                        GraphNode(v.t, FindMigrationsForType(rm, v.t, userVersion))),
             Len(b.nodes) + 1),
           Len(b.nodes) + 1)

walkValue(rm, v, userVersion, b) ==
    IF Kind(v.t) = "ptr"
    THEN IF IsNilValue(v)
         THEN Walked([b EXCEPT !.nodes = Append(@, GraphNode(Nil, <<>>))],
                     Len(b.nodes) + 1)
         ELSE walkValue(rm, v.c[1], userVersion, b)
    ELSE walkValueDereferenced(rm, v, userVersion, b)

\* The graph of one struct field: by value for an interface, by type otherwise.
walkValueField(rm, field, fieldValue, userVersion, b) ==
    IF Kind(field.Type) = "interface"
    THEN walkValue(rm, fieldValue.c[1], userVersion, b)
    ELSE onHeap(b, buildFromTypeOn(rm, field.Type, userVersion, b.nodes))

walkValueFields(rm, v, i, userVersion, b, g) ==
    IF i > NumField(v.t) THEN b
    ELSE IF Kind(Field(v.t, i).Type) = "interface" /\ IsNilValue(v.c[i])
    THEN walkValueFields(rm, v, i + 1, userVersion, b, g)
    ELSE walkValueFields(
           rm, v, i + 1, userVersion,
           attachIfMigrations(walkValueField(rm, Field(v.t, i), v.c[i], userVersion, b),
                              g, graphFieldName(Field(v.t, i))),
           g)

buildFromValue(rm, v, userVersion) == Graph(walkValue(rm, v, userVersion, NewBuild(<<>>)))

(***************************************************************************)
(* Decoded JSON documents (any): [k, s, h, n, c] with k one of "null",     *)
(* "scalar", "object", "array"; n the keys of an object and c its values   *)
(* (or the elements of an array); h the suffixes that migration functions  *)
(* appended to the node.                                                   *)
(***************************************************************************)
JNull == [k |-> "null", s |-> "", h |-> <<>>, n |-> <<>>, c |-> <<>>]
JScalar(s) == [k |-> "scalar", s |-> s, h |-> <<>>, n |-> <<>>, c |-> <<>>]
JObject(n, c) == [k |-> "object", s |-> "", h |-> <<>>, n |-> n, c |-> c]
JArray(c) == [k |-> "array", s |-> "", h |-> <<>>, n |-> <<>>, c |-> c]

(***************************************************************************)
(* The TypeMigration implementations of the modelled applications (user    *)
(* code).  A migration function either appends its suffix to the node it   *)
(* is given (chainMigrationV2.MigrateForward: s + " -> v2"), returns       *)
(* (nil, nil), returns an error, or changes the shape of the node.         *)
(***************************************************************************)
\* The documents of the example application: an object holds a key, an object
\* without a key, an object with one more key.
HasKey(d, key) == d.k = "object" /\ \E i \in 1..Len(d.n) : d.n[i] = key
valueOf(d, key) == d.c[CHOOSE i \in 1..Len(d.n) : d.n[i] = key]

\* The positions of s that hold something else than key, in order.
RECURSIVE others(_, _, _)
others(n, key, i) ==
    IF i > Len(n) THEN <<>>
    ELSE (IF n[i] = key THEN <<>> ELSE <<i>>) \o others(n, key, i + 1)

\* delete(d, key), on the positions that stay.
keepKeys(d, at) ==
    [d EXCEPT !.n = [i \in 1..Len(at) |-> d.n[at[i]]],
              !.c = [i \in 1..Len(at) |-> d.c[at[i]]]]
dropKey(d, key) == keepKeys(d, others(d.n, key, 1))

\* d[key] = value, for a key that d does not hold.
putKey(d, key, value) == [d EXCEPT !.n = Append(@, key), !.c = Append(@, value)]

\* strings.Split(fullName, " ") and strings.TrimSpace(firstName + " " + lastName)
\* on the names of the modelled documents.
SplitName(s) == IF s = "A B" THEN <<"A", "B">> ELSE <<"C", "D">>
JoinName(first, last) == IF first = "A" /\ last = "B" THEN "A B" ELSE "C D"

\* UserMigration.MigrateForward: full_name becomes first_name and last_name.
splitFullName(d, parts) ==
    putKey(putKey(dropKey(d, "full_name"), "first_name", JScalar(parts[1])),
           "last_name", JScalar(parts[2]))

\* The backward function that undoes splitFullName: first_name and last_name
\* become full_name and are deleted (UserMigration.MigrateBackward of the
\* example sets full_name and deletes nothing).
joinFullName(d, first, last) ==
    putKey(dropKey(dropKey(d, "first_name"), "last_name"), "full_name",
           JScalar(JoinName(first, last)))

\* A rename of the key from to the key to, in place.
renameKey(d, from, to) ==
    IF HasKey(d, from)
    THEN [d EXCEPT !.n = [i \in 1..Len(d.n) |-> IF d.n[i] = from THEN to ELSE d.n[i]]]
    ELSE d

\* The migration functions of the example application: what m returns for
\* data in the direction dir.  renameMigration is the rename of full_name,
\* nameMigration an earlier rename of name to full_name, ProfileMigration the
\* change of profile from its uid to an object.
Transform(m, dir, data) ==
    CASE m = "renameMigration" /\ dir = "forward" ->
           IF HasKey(data, "full_name")
           THEN splitFullName(data, SplitName(valueOf(data, "full_name").s))
           ELSE data
      [] m = "renameMigration" /\ dir = "backward" ->
           IF HasKey(data, "first_name") /\ HasKey(data, "last_name")
           THEN joinFullName(data, valueOf(data, "first_name").s,
                             valueOf(data, "last_name").s)
           ELSE data
      [] m = "nameMigration" /\ dir = "forward" -> renameKey(data, "name", "full_name")
      [] m = "nameMigration" /\ dir = "backward" -> renameKey(data, "full_name", "name")
      [] m = "ProfileMigration" /\ dir = "forward" ->
           IF data.k = "scalar" THEN JObject(<<"uid">>, <<data>>) ELSE data
      [] m = "ProfileMigration" /\ dir = "backward" ->
           IF data.k # "object" THEN data
           ELSE IF HasKey(data, "uid") THEN valueOf(data, "uid") ELSE JNull
      [] OTHER -> data

MigrationBehaviour(m, dir) ==
    CASE m = "failingMigration" -> "error"
      [] m = "dropMigration" -> "nil"
      [] m \in {"renameMigration", "nameMigration", "ProfileMigration"} -> "transform"
      [] OTHER -> "append"

MigrationSuffix(m, dir) ==
    CASE m = "chainMigrationV2" -> IF dir = "forward" THEN " -> v2" ELSE " -> v1"
      [] m = "chainMigrationV3" -> IF dir = "forward" THEN " -> v3" ELSE " -> v2"
      [] m = "addressStringMigration" ->
            IF dir = "forward" THEN "Migrated" ELSE "Backward"
      [] m = "cyclicUserMigration" ->
            IF dir = "forward" THEN "username->name" ELSE "name->username"
      [] m = "cyclicWorkspaceMigration" ->
            IF dir = "forward" THEN "name->title" ELSE "title->name"
      [] m = "endpointMigration" ->
            IF dir = "forward" THEN "title->name" ELSE "name->title"
      [] m = "pagedMigration" ->
            IF dir = "forward" THEN "paged.forward" ELSE "paged.backward"
      [] OTHER -> IF dir = "forward" THEN "forward" ELSE "backward"

ErrMigration == "migration failed"

\* m.MigrateForward(ctx, data) / m.MigrateBackward(ctx, data): [data, err].
callMigration(m, dir, data) ==
    CASE MigrationBehaviour(m, dir) = "error" -> [data |-> JNull, err |-> ErrMigration]
      [] MigrationBehaviour(m, dir) = "nil" -> [data |-> JNull, err |-> NoErr]
      [] MigrationBehaviour(m, dir) = "transform" ->
            [data |-> Transform(m, dir, data), err |-> NoErr]
      [] OTHER -> [data |-> [data EXCEPT !.h = Append(@, MigrationSuffix(m, dir))],
                   err |-> NoErr]

\* One call of a migration function, as the traversal made it: the i-th of
\* the loop over the node's own migrations, with data as its argument.
Call(m, dir, data, i) == [m |-> m, dir |-> dir, data |-> data, i |-> i]

Result(data, e, log) == [data |-> data, err |-> e, log |-> log]

Reverse(s) == [i \in 1..Len(s) |-> s[Len(s) + 1 - i]]

\* for _, m := range g.Migrations
forwardOrder(ms) == ms

\* A backward loop in the order of the forward loop.
oldestFirst(ms) == ms

\* for i := len(g.Migrations) - 1; i >= 0; i--
backwardOrder(ms) == Reverse(ms)

RECURSIVE applyMigrations(_, _, _, _, _)
\* A loop that goes on to the next migration whatever the last one returned.
appliedUnchecked(ms, i, dir, data, r, log) ==
    applyMigrations(ms, i + 1, dir, r.data, log)

\* data, err = m.Migrate...(ctx, data); if err != nil { return nil, err }
applied(ms, i, dir, data, r, log) ==
    IF r.err # NoErr THEN Result(data, r.err, log)
    ELSE applyMigrations(ms, i + 1, dir, r.data, log)

\* The loop over the node's own migrations: each gets the previous one's
\* result; the first error ends it.
applyMigrations(ms, i, dir, data, log) ==
    IF i > Len(ms) THEN Result(data, NoErr, log)
    ELSE applied(ms, i, dir, data, callMigration(ms[i], dir, data),
                 Append(log, Call(ms[i], dir, data, i)))

RECURSIVE MigrateForward(_, _, _, _)
RECURSIVE MigrateBackward(_, _, _, _)
RECURSIVE migrateChildren(_, _, _, _, _, _)

\* The children a traversal recurses into: for an object, the keys of
\* g.Fields other than "__elem" that the object holds with a non-nil value
\* (the Go loop ranges over g.Fields: the model takes them in the order of
\* the object's keys); for an array, every element if g.Fields["__elem"]
\* exists.  [i] is the position in data.c, and the child graph node.
childGraph(nodes, g, data, i) ==
    CASE data.k = "object" ->
           IF /\ data.n[i] # ElemKey
              /\ data.n[i] \in DOMAIN nodes[g].Fields
              /\ data.c[i].k # "null"
           THEN nodes[g].Fields[data.n[i]] ELSE 0
      [] data.k = "array" ->
           IF ElemKey \in DOMAIN nodes[g].Fields
           THEN nodes[g].Fields[ElemKey] ELSE 0
      [] OTHER -> 0

\* fieldGraph.MigrateForward(ctx, fieldData) / fieldGraph.MigrateBackward(...)
migrateNode(nodes, g, dir, data, log) ==
    IF dir = "forward"
    THEN MigrateForward(nodes, g, data, log)
    ELSE MigrateBackward(nodes, g, data, log)

\* if err != nil { return nil, err }; val[fieldName] = migratedField
childMigrated(nodes, g, dir, data, i, r) ==
    IF r.err # NoErr THEN Result(data, r.err, r.log)
    ELSE migrateChildren(nodes, g, dir, [data EXCEPT !.c[i] = r.data], i + 1, r.log)

\* One step of the loop over the children, child being the i-th child's graph.
migrateChild(nodes, g, dir, data, i, log, child) ==
    IF child = 0 THEN migrateChildren(nodes, g, dir, data, i + 1, log)
    ELSE childMigrated(nodes, g, dir, data, i,
                       migrateNode(nodes, child, dir, data.c[i], log))

migrateChildren(nodes, g, dir, data, i, log) ==
    IF i > Len(data.c) THEN Result(data, NoErr, log)
    ELSE migrateChild(nodes, g, dir, data, i, log, childGraph(nodes, g, data, i))

\* MigrateForward after its children: the node's own migrations.
ownForward(nodes, g, r) ==
    IF r.err # NoErr THEN r
    ELSE applyMigrations(forwardOrder(nodes[g].Migrations), 1, "forward",
                         r.data, r.log)

\* typeGraph.MigrateForward: [data, err, log].
MigrateForward(nodes, g, data, log) ==
    IF data.k = "null" THEN Result(data, NoErr, log)
    ELSE ownForward(nodes, g, migrateChildren(nodes, g, "forward", data, 1, log))

\* MigrateBackward after the node's own migrations: its children.
childrenBackward(nodes, g, r) ==
    IF r.err # NoErr THEN r
    ELSE migrateChildren(nodes, g, "backward", r.data, 1, r.log)

\* typeGraph.MigrateBackward: [data, err, log].
MigrateBackward(nodes, g, data, log) ==
    IF data.k = "null" THEN Result(data, NoErr, log)
    ELSE childrenBackward(nodes, g,
                          applyMigrations(backwardOrder(nodes[g].Migrations), 1,
                                          "backward", data, log))

(***************************************************************************)
(* encoding/json, as far as the facade uses it.                            *)
(***************************************************************************)
\* The key of a struct field in its JSON object.
jsonKey(field) ==
    IF field.TagSet /\ field.TagFirst # "" THEN field.TagFirst ELSE field.Name

\* json.Marshal(v) of a live value: the keys of a struct in declaration order.
RECURSIVE plainEncode(_)
plainEncode(v) ==
    CASE v.k = "nil" -> JNull
      [] v.k = "scalar" -> JScalar(v.s)
      [] v.k \in {"ptr", "iface"} -> plainEncode(v.c[1])
      [] v.k = "slice" -> JArray([i \in 1..Len(v.c) |-> plainEncode(v.c[i])])
      [] v.k = "struct" ->
           JObject([i \in 1..NumField(v.t) |-> jsonKey(Field(v.t, i))],
                   [i \in 1..NumField(v.t) |-> plainEncode(v.c[i])])

\* The keys of the modelled documents, in the byte order json.Marshal writes
\* the keys of a map[string]any in.
KeyOrder ==
    <<"Address", "address", "content", "created_at", "email", "first_name", "foo",
      "full_name", "github_url", "last_name", "name", "next", "page", "profile",
      "tag", "title", "twitter_url", "uid", "updated_at", "users", "workspace">>

keyRank(key) == CHOOSE i \in 1..Len(KeyOrder) : KeyOrder[i] = key

\* The position, among the keys n, of the key that is i-th in byte order.
sortedPosition(n, i) ==
    CHOOSE j \in 1..Len(n) :
        Cardinality({l \in 1..Len(n) : keyRank(n[l]) < keyRank(n[j])}) = i - 1

\* A document decoded into any and encoded again: a map[string]any keeps no
\* key order, and json.Marshal writes its keys sorted.
RECURSIVE canonical(_)
canonical(d) ==
    CASE d.k = "object" ->
           [d EXCEPT !.n = [i \in 1..Len(d.n) |-> d.n[sortedPosition(d.n, i)]],
                     !.c = [i \in 1..Len(d.n) |-> canonical(d.c[sortedPosition(d.n, i)])]]
      [] d.k = "array" -> [d EXCEPT !.c = [i \in 1..Len(d.c) |-> canonical(d.c[i])]]
      [] OTHER -> d

\* readBody(v): v encoded and decoded into any.
readBody(v) == canonical(plainEncode(v))

(***************************************************************************)
(* The applications: what each registers, and the requests it serves.      *)
(***************************************************************************)
Apps == {"chain", "versions", "types", "cycle", "paged", "tags"}

Options(cur, format) ==
    [isNil |-> FALSE, CurrentVersion |-> cur, VersionFormat |-> format]
NilOptions == [isNil |-> TRUE, CurrentVersion |-> "", VersionFormat |-> ""]

\* Migration[T](version, m)
Migration(version, t, m) == [version |-> version, t |-> t, migration |-> m]

OptionChoices(a) ==
    CASE a = "versions" ->
           { NilOptions, Options(" ", DateFormat), Options("2023-03-01", DateFormat),
             Options("v3", "calver") }
      [] a = "types" -> {Options("v3", SemverFormat)}
      [] a = "basic" -> {Options("2024-01-01", DateFormat)}
      [] OTHER -> {Options("2023-03-01", DateFormat)}

\* The argument lists of the Register calls.
RegisterChoices(a) ==
    CASE a = "chain" ->
           { <<Migration("2023-02-01", "AddressString", "chainMigrationV2")>>,
             <<Migration("2023-03-01", "AddressString", "chainMigrationV3")>>,
             <<Migration("2023-03-01", "CustomUser", "dropMigration")>>,
             <<Migration("2023-02-01", "CustomUser", "failingMigration")>> }
      [] a = "versions" ->
           { <<Migration("2023-02-01", "AddressString", "chainMigrationV2")>>,
             <<Migration("not-a-date", "AddressString", "addressStringMigration")>>,
             <<Migration("2023-03-01", "AddressString", "chainMigrationV3"),
               Migration("not-a-date", "AddressString", "addressStringMigration")>> }
      [] a = "types" ->
           { <<Migration("v2", "AddressString", "chainMigrationV2")>>,
             <<Migration("v1", "CustomUser", "dummyMigration")>>,
             <<Migration("v2", "*CustomUser", "pointerMigration")>>,
             <<Migration("v1", "NamedSlice", "dummyMigration")>>,
             <<Migration("v1", "NamedMap", "dummyMigration")>>,
             <<Migration("v1", "string", "dummyMigration")>>,
             <<Migration("v1", "int", "dummyMigration")>>,
             <<Migration("v1", "[]string", "dummyMigration")>>,
             <<Migration("v1", "map[string]string", "dummyMigration")>>,
             <<Migration("v1", "interface{}", "dummyMigration")>>,
             <<Migration("v1", "error", "dummyMigration")>>,
             <<Migration("v3", "AddressString", "chainMigrationV3"),
               Migration("v1", "[]string", "dummyMigration"),
               Migration("v1", "NamedSlice", "dummyMigration")>> }
      [] a = "cycle" ->
           { <<Migration("2023-03-01", "CyclicUser", "cyclicUserMigration")>>,
             <<Migration("2023-03-01", "CyclicWorkspace", "cyclicWorkspaceMigration")>>,
             <<Migration("2023-03-01", "AddressString", "addressStringMigration")>> }
      [] a = "paged" ->
           { <<Migration("2023-03-01", "EndpointResponse", "endpointMigration")>>,
             <<Migration("2023-03-01", "PagedResponse", "pagedMigration")>> }
      [] a = "tags" ->
           { <<Migration("2023-03-01", "AddressString", "addressStringMigration")>> }
      [] a = "basic" ->
           { <<Migration("2024-01-01", "User", "renameMigration")>>,
             <<Migration("2024-01-01", "profile", "ProfileMigration")>>,
             <<Migration("2024-01-01", "User", "renameMigration"),
               Migration("2023-06-01", "User", "nameMigration")>>,
             <<Migration("2023-06-01", "User", "nameMigration")>> }

\* The values of the version header of the requests ("": no header).
HeaderChoices(a) ==
    CASE a = "chain" -> {"2023-01-01", "2023-02-01", "2023-03-01"}
      [] a = "versions" -> {"", "2023-03-01", "not-a-date"}
      [] a = "types" -> {"", "v1"}
      [] a = "basic" -> {"2023-01-01", "2023-06-01", "2024-01-01"}
      [] OTHER -> {"2023-01-01"}

CustomUserOf(s) == StructVal("CustomUser", <<Scalar("AddressString", s)>>)

\* struct { Address AddressString `json:",omitempty"` } and
\* struct { Address AddressString }: a tag that gives no name, and no tag.
OptionalUserOf(s) ==
    PtrVal("*OptionalUser", StructVal("OptionalUser", <<Scalar("AddressString", s)>>))
PlainUserOf(s) ==
    PtrVal("*PlainUser", StructVal("PlainUser", <<Scalar("AddressString", s)>>))

CyclicUserOf(name, workspace) ==
    PtrVal("*CyclicUser", StructVal("CyclicUser", <<Scalar("string", name), workspace>>))
CyclicWorkspaceOf(title, users) ==
    PtrVal("*CyclicWorkspace",
           StructVal("CyclicWorkspace",
                     <<Scalar("string", title), SliceVal("[]*CyclicUser", users)>>))
NoWorkspace == NilOf("*CyclicWorkspace")

\* Alice in Engineering with Bob, Bob in Design with Charlie.
DeepUser ==
    CyclicUserOf("Alice",
      CyclicWorkspaceOf("Engineering",
        <<CyclicUserOf("Bob",
            CyclicWorkspaceOf("Design", <<CyclicUserOf("Charlie", NoWorkspace)>>))>>))

NodeAChain ==
    PtrVal("*NodeA",
      StructVal("NodeA",
        <<PtrVal("*NodeA",
            StructVal("NodeA", <<NilOf("*NodeA"), Scalar("AddressString", "inner")>>)),
          Scalar("AddressString", "outer")>>))

NodeBChain ==
    PtrVal("*NodeB",
      StructVal("NodeB",
        <<Scalar("AddressString", "outer"),
          PtrVal("*NodeB",
            StructVal("NodeB", <<Scalar("AddressString", "inner"), NilOf("*NodeB")>>))>>))

EndpointOf(name) == StructVal("EndpointResponse", <<Scalar("string", name)>>)
PagedOf(content) ==
    PtrVal("*PagedResponse", StructVal("PagedResponse", <<content, Scalar("int", "1")>>))
StaticOf(t, content) ==
    PtrVal(t, StructVal(Elem(t), <<content, Scalar("int", "1")>>))

TwoEndpoints ==
    SliceVal("[]EndpointResponse", <<EndpointOf("endpoint-1"), EndpointOf("endpoint-2")>>)
TwoEndpointPtrs ==
    SliceVal("[]*EndpointResponse",
             <<PtrVal("*EndpointResponse", EndpointOf("endpoint-1")),
               PtrVal("*EndpointResponse", EndpointOf("endpoint-2"))>>)
\* []*PagedResponse{nil, &PagedResponse{}}
NilThenPaged ==
    SliceVal("[]*PagedResponse", <<NilOf("*PagedResponse"), PagedOf(NilIface)>>)
\* &StaticPaged{Content: []*PagedResponse{{Content: EndpointResponse{}}}}: the
\* interface field of PagedResponse, behind the slice field of StaticPaged.
NestedPaged ==
    StaticOf("*StaticPaged",
             SliceVal("[]*PagedResponse", <<PagedOf(IfaceVal(EndpointOf("inner")))>>))
UnregisteredValue == StructVal("UnregisteredType", <<Scalar("string", "bar")>>)

\* The values handed to Marshal.
MarshalChoices(a) ==
    CASE a = "chain" ->
           { PtrVal("*CustomUser", CustomUserOf("start")),
             PtrVal("*[]CustomUser",
                    SliceVal("[]CustomUser", <<CustomUserOf("a"), CustomUserOf("b")>>)) }
      [] a \in {"versions", "types"} -> {PtrVal("*CustomUser", CustomUserOf("start"))}
      [] a = "cycle" -> {DeepUser, NodeAChain, NodeBChain}
      [] a = "tags" -> {OptionalUserOf("start"), PlainUserOf("start")}
      [] a = "paged" ->
           { PagedOf(IfaceVal(EndpointOf("test-endpoint"))),
             StaticOf("*StaticOne", EndpointOf("test-endpoint")),
             PagedOf(IfaceVal(TwoEndpoints)),
             StaticOf("*StaticMany", TwoEndpoints),
             PagedOf(IfaceVal(TwoEndpointPtrs)),
             StaticOf("*StaticPtrs", TwoEndpointPtrs),
             PagedOf(IfaceVal(UnregisteredValue)),
             StaticOf("*StaticNone", UnregisteredValue),
             PagedOf(IfaceVal(NilThenPaged)),
             StaticOf("*StaticPaged", NilThenPaged),
             NestedPaged,
             PagedOf(NilIface) }

\* Unmarshal(data, v): the type of v and the document data holds.
Input(t, data) == [t |-> t, data |-> data]

UnmarshalChoices(a) ==
    CASE a = "chain" ->
           { Input("*CustomUser", plainEncode(CustomUserOf("start"))),
             Input("CustomUser", plainEncode(CustomUserOf("start"))) }
      [] a \in {"versions", "types", "cycle", "tags"} ->
           {Input(v.t, plainEncode(v)) : v \in MarshalChoices(a)}
      [] a = "paged" ->
           { Input("*StaticOne", plainEncode(StaticOf("*StaticOne", EndpointOf("e")))),
             Input("*StaticMany", plainEncode(StaticOf("*StaticMany", TwoEndpoints))) }

(***************************************************************************)
(* The API of RequestMigration and Migrator.                               *)
(***************************************************************************)
ErrNilOptions == "options cannot be nil"
ErrCurrentVersionCannotBeEmpty == "current version field cannot be empty"
ErrInvalidVersionFormat == "invalid version format"
ErrNativeTypeMigration ==
    "cannot register migration for native Go type; use a custom type alias instead (e.g., 'type MyString string')"
ErrAlreadyBuilt == "cannot register migrations after Build() has been called"
ErrNotBuilt == "must call Build() before using RequestMigration"
ErrNotPointer == "v must be a pointer"

\* A check that takes no string for empty.
neverEmpty(s) == FALSE

isStringEmpty(s) == s \in {"", " "}

\* rm.iv
\* A constructor that takes CurrentVersion for the initial version.
currentAsInitial(format) ==
    CASE format = DateFormat -> "2023-03-01"
      [] format = SemverFormat -> "v3"
      [] OTHER -> ""

initialVersion(format) ==
    CASE format = DateFormat -> "0001-01-01"
      [] format = SemverFormat -> "v0"
      [] OTHER -> ""

Returned(op, arg, e) == [op |-> op, arg |-> arg, err |-> e]

NoMigrator == [bound |-> FALSE, userVersion |-> ""]
Idle == [op |-> "none", fast |-> FALSE, err |-> NoErr, doc |-> JNull, log |-> <<>>]
Outcome(op, fast, e, doc, log) ==
    [op |-> op, fast |-> fast, err |-> e, doc |-> doc, log |-> log]

\* The registry in the current state.
RM == Registry(opts.VersionFormat, versions, migrations)

Init ==
    /\ app \in Apps
    /\ ctor = "none"
    /\ opts = NilOptions
    /\ versions = <<>>
    /\ migrations = <<>>
    /\ graphCache = <<>>
    /\ built = FALSE
    /\ err = NoErr
    /\ registerCalls = 0
    /\ requests = 0
    /\ ret = Returned("none", <<>>, NoErr)
    /\ migrator = NoMigrator
    /\ out = Idle
    /\ graphFrom = "none"
    /\ goroutines = <<>>
    /\ crashed = FALSE

NewRequestMigration(o) ==
    /\ ctor = "none"
    /\ LET e == CASE o.isNil -> ErrNilOptions
                  [] isStringEmpty(o.CurrentVersion) -> ErrCurrentVersionCannotBeEmpty
                  [] OTHER -> NoErr
       IN /\ ctor' = IF e = NoErr THEN "ok" ELSE e
          /\ ret' = Returned("NewRequestMigration", o, e)
          /\ IF e = NoErr
             THEN /\ opts' = o
                  /\ versions' = <<initialVersion(o.VersionFormat)>>
             ELSE UNCHANGED <<opts, versions>>
    /\ UNCHANGED <<app, migrations, graphCache, built, err, registerCalls,
                   requests, migrator, out, graphFrom>>
    /\ UNCHANGED concVars

\* The loop of Register over its arguments: [versions, migrations, err].
RECURSIVE registerEntries(_, _, _, _)
\* The next entry, on the registry r that registerTypeMigration left.
registered(r, entries, i) == registerEntries(r.versions, r.migrations, entries, i + 1)

registerEntries(vs, ms, entries, i) ==
    IF i > Len(entries) THEN [versions |-> vs, migrations |-> ms, err |-> NoErr]
    ELSE IF ~isValidMigrationType(entries[i].t)
    THEN [versions |-> vs, migrations |-> ms, err |-> ErrNativeTypeMigration]
    ELSE registered(registerTypeMigration(vs, ms, entries[i].version, entries[i].t,
                                          entries[i].migration),
                    entries, i)

\* A Register that does not look at rm.built.
registerUnguarded(e, b, vs, ms, entries) ==
    IF e # NoErr THEN [versions |-> vs, migrations |-> ms, err |-> e]
    ELSE registerEntries(vs, ms, entries, 1)

\* A Register that does not look at rm.err.
registerForgetful(e, b, vs, ms, entries) ==
    IF b THEN [versions |-> vs, migrations |-> ms, err |-> ErrAlreadyBuilt]
    ELSE registerEntries(vs, ms, entries, 1)

\* What Register leaves in rm.versions, rm.migrations and rm.err.
register(e, b, vs, ms, entries) ==
    IF e # NoErr THEN [versions |-> vs, migrations |-> ms, err |-> e]
    ELSE IF b THEN [versions |-> vs, migrations |-> ms, err |-> ErrAlreadyBuilt]
    ELSE registerEntries(vs, ms, entries, 1)

\* Register returns rm, for chaining: it has no error result.
Register(entries) ==
    /\ ctor = "ok"
    /\ registerCalls < MaxRegisterCalls
    /\ registerCalls' = registerCalls + 1
    /\ ret' = Returned("Register", entries, NoErr)
    /\ LET r == register(err, built, versions, migrations, entries)
       IN /\ versions' = r.versions
          /\ migrations' = r.migrations
          /\ err' = r.err
    /\ UNCHANGED <<app, ctor, opts, graphCache, built, requests, migrator, out,
                   graphFrom>>
    /\ UNCHANGED concVars

CacheGraph(G) == [nodes |-> G.nodes, root |-> G.root]

\* buildAndCacheGraphsForType for every registered type: the entries stored.
eagerGraphs(rm) ==
    LET keys == {<<t, rm.versions[i]>> :
                    t \in {u \in DOMAIN rm.migrations : ~typeHasInterfaceFields(u)},
                    i \in 1..Len(rm.versions)}
    IN [key \in keys |-> CacheGraph(buildFromType(rm, key[1], key[2]))]

\* A Build that does not look at rm.built.
buildErrorUnguarded(e, b, format) ==
    CASE e # NoErr -> e
      [] format \notin {SemverFormat, DateFormat} -> ErrInvalidVersionFormat
      [] OTHER -> NoErr

\* What Build returns, from rm.err, rm.built and opts.VersionFormat.
buildError(e, b, format) ==
    CASE e # NoErr -> e
      [] b -> ErrAlreadyBuilt
      [] format \notin {SemverFormat, DateFormat} -> ErrInvalidVersionFormat
      [] OTHER -> NoErr

Build ==
    /\ ctor = "ok"
    /\ LET e == buildError(err, built, opts.VersionFormat)
           sorted == sortVersions(opts.VersionFormat, versions)
       IN /\ ret' = Returned("Build", <<>>, e)
          /\ IF e = NoErr
             THEN /\ versions' = sorted
                  /\ graphCache' =
                       eagerGraphs(Registry(opts.VersionFormat, sorted, migrations))
                         @@ graphCache
                  /\ built' = TRUE
             ELSE UNCHANGED <<versions, graphCache, built>>
    /\ UNCHANGED <<app, ctor, opts, migrations, err, registerCalls, requests,
                   migrator, out, graphFrom>>
    /\ UNCHANGED concVars

\* getUserVersion: the header, or rm.iv when the request has none (the
\* modelled applications set no GetUserVersionFunc).
getUserVersion(header) ==
    IF ~isStringEmpty(header) THEN header ELSE initialVersion(opts.VersionFormat)

For(header) ==
    /\ ctor = "ok"
    /\ requests < MaxRequests
    /\ requests' = requests + 1
    /\ IF ~built
       THEN /\ ret' = Returned("For", header, ErrNotBuilt)
            /\ UNCHANGED <<migrator, out, graphFrom>>
       ELSE /\ ret' = Returned("For", header, NoErr)
            /\ migrator' = [bound |-> TRUE, userVersion |-> getUserVersion(header)]
            /\ out' = Idle
            /\ graphFrom' = "none"
    /\ UNCHANGED <<app, ctor, opts, versions, migrations, graphCache, built, err,
                   registerCalls>>
    /\ UNCHANGED concVars

\* Migrator.Marshal(v): what it returns, as an Outcome.
marshalled(r) ==
    IF r.err # NoErr
    THEN Outcome("Marshal", FALSE, r.err, JNull, r.log)
    ELSE Outcome("Marshal", FALSE, NoErr, canonical(r.data), r.log)

\* Marshal on the graph built for v.
marshalOn(graph, v) ==
    IF ~HasMigrations(graph.nodes, graph.root)
    THEN Outcome("Marshal", TRUE, NoErr, plainEncode(v), <<>>)
    ELSE marshalled(MigrateBackward(graph.nodes, graph.root, readBody(v), <<>>))

marshal(rm, v, userVersion) == marshalOn(buildFromValue(rm, v, userVersion), v)

Marshal(v) ==
    /\ migrator.bound
    /\ out' = marshal(RM, v, migrator.userVersion)
    /\ ret' = Returned("Marshal", v, out'.err)
    \* buildFromValue never loads from b.graphCache
    /\ graphFrom' = "build"
    /\ UNCHANGED <<app, ctor, opts, versions, migrations, graphCache, built, err,
                   registerCalls, requests, migrator>>
    /\ UNCHANGED concVars

unmarshalKey(t, userVersion) == <<dereferenceToLastPtr(t), userVersion>>

\* The graph Unmarshal uses: the cached one, or a new one.
unmarshalGraph(rm, cache, t, userVersion) ==
    IF unmarshalKey(t, userVersion) \in DOMAIN cache
    THEN cache[unmarshalKey(t, userVersion)]
    ELSE CacheGraph(buildFromType(rm, t, userVersion))

\* Migrator.Unmarshal(data, v) with v of type t: doc is the document that is
\* decoded into v.
unmarshalled(r) ==
    IF r.err # NoErr
    THEN Outcome("Unmarshal", FALSE, r.err, JNull, r.log)
    ELSE Outcome("Unmarshal", FALSE, NoErr, r.data, r.log)

\* Unmarshal on the graph of the type of v.
unmarshalOn(graph, in) ==
    IF ~HasMigrations(graph.nodes, graph.root)
    THEN Outcome("Unmarshal", TRUE, NoErr, in.data, <<>>)
    ELSE unmarshalled(MigrateForward(graph.nodes, graph.root, canonical(in.data), <<>>))

unmarshal(rm, cache, in, userVersion) ==
    unmarshalOn(unmarshalGraph(rm, cache, in.t, userVersion), in)

\* The result of Unmarshal and the cache entry it leaves.
unmarshalWith(graph, in, key) ==
    /\ out' = unmarshalOn(graph, in)
    /\ graphFrom' = IF key \in DOMAIN graphCache THEN "cache" ELSE "build"
    /\ graphCache' = (key :> graph) @@ graphCache

Unmarshal(in) ==
    /\ migrator.bound
    /\ IF Kind(in.t) # "ptr"
       THEN /\ out' = Outcome("Unmarshal", FALSE, ErrNotPointer, JNull, <<>>)
            /\ UNCHANGED <<graphCache, graphFrom>>
       ELSE unmarshalWith(unmarshalGraph(RM, graphCache, in.t, migrator.userVersion),
                          in, unmarshalKey(in.t, migrator.userVersion))
    /\ ret' = Returned("Unmarshal", in, out'.err)
    /\ UNCHANGED <<app, ctor, opts, versions, migrations, built, err,
                   registerCalls, requests, migrator>>
    /\ UNCHANGED concVars

Next ==
    \/ \E o \in OptionChoices(app) : NewRequestMigration(o)
    \/ \E entries \in RegisterChoices(app) : Register(entries)
    \/ Build
    \/ \E header \in HeaderChoices(app) : For(header)
    \/ \E v \in MarshalChoices(app) : Marshal(v)
    \/ \E in \in UnmarshalChoices(app) : Unmarshal(in)

Spec == Init /\ [][Next]_vars

(***************************************************************************)
(* The traversals of one graph, one after the other: the example           *)
(* application registers its migrations and builds, a request is bound,    *)
(* and the graph of the payload's type migrates a document forward and     *)
(* then migrates the result backward.                                      *)
(***************************************************************************)
\* A migration is registered for the type t at the version v.
HasMigrationAt(t, v) == t \in DOMAIN migrations /\ v \in DOMAIN migrations[t]

\* The version u is before the version v.
Before(u, v) == Parse(opts.VersionFormat, u) < Parse(opts.VersionFormat, v)

\* The name of a user, as a caller of the version u sends it: under name
\* before the rename to full_name, under full_name before the split.
NamePart(u, full) ==
    CASE HasMigrationAt("User", "2023-06-01") /\ Before(u, "2023-06-01") ->
           JObject(<<"name">>, <<JScalar(full)>>)
      [] HasMigrationAt("User", "2024-01-01") /\ Before(u, "2024-01-01") ->
           JObject(<<"full_name">>, <<JScalar(full)>>)
      [] OTHER ->
           JObject(<<"first_name", "last_name">>,
                   <<JScalar(SplitName(full)[1]), JScalar(SplitName(full)[2])>>)

\* The profile of a user, as a caller of the version u sends it: its uid
\* before the change to an object.
ProfilePart(u, with) ==
    CASE ~with -> JObject(<<>>, <<>>)
      [] HasMigrationAt("profile", "2024-01-01") /\ Before(u, "2024-01-01") ->
           JObject(<<"profile">>, <<JScalar("u1")>>)
      [] OTHER ->
           JObject(<<"profile">>, <<JObject(<<"uid">>, <<JScalar("u1")>>)>>)

\* {"email": "e", ...}: a user in the shape of the version u.
joined(name, profile) ==
    JObject(<<"email">> \o name.n \o profile.n, <<JScalar("e")>> \o name.c \o profile.c)
UserDoc(u, full, with) == joined(NamePart(u, full), ProfilePart(u, with))

\* The documents handed to the traversals, with the type of their payload.
TraversalChoices(u) ==
    {Input("User", UserDoc(u, full, with)) : full \in {"A B", "C D"}, with \in BOOLEAN}
       \cup {Input("[]*User", JArray(<<UserDoc(u, "A B", TRUE), UserDoc(u, "C D", FALSE)>>))}

\* graph.MigrateForward(ctx, &data) / graph.MigrateBackward(ctx, &data) on the
\* graph G, the log going on from log.
traverse(G, dir, data, log) == migrateNode(G.nodes, G.root, dir, data, log)
traversed(op, r) == Outcome(op, FALSE, r.err, r.data, r.log)

\* The graph of the type t for the bound caller.
graphFor(t) == unmarshalGraph(RM, graphCache, t, migrator.userVersion)

MigrateForwardCall(in) ==
    /\ migrator.bound
    /\ out.op = "none"
    /\ ret' = Returned("MigrateForward", in, NoErr)
    /\ out' = traversed("MigrateForward", traverse(graphFor(in.t), "forward", in.data, <<>>))
    /\ UNCHANGED <<app, ctor, opts, versions, migrations, graphCache, built, err,
                   registerCalls, requests, migrator, graphFrom, concVars>>

MigrateBackwardCall ==
    /\ ret.op = "MigrateForward"
    /\ out.op = "MigrateForward"
    /\ out.err = NoErr
    /\ ret' = Returned("MigrateBackward", ret.arg, NoErr)
    /\ out' = traversed("MigrateBackward",
                        traverse(graphFor(ret.arg.t), "backward", out.doc, out.log))
    /\ UNCHANGED <<app, ctor, opts, versions, migrations, graphCache, built, err,
                   registerCalls, requests, migrator, graphFrom, concVars>>

TraversalInit ==
    /\ app = "basic"
    /\ ctor = "none"
    /\ opts = NilOptions
    /\ versions = <<>>
    /\ migrations = <<>>
    /\ graphCache = <<>>
    /\ built = FALSE
    /\ err = NoErr
    /\ registerCalls = 0
    /\ requests = 0
    /\ ret = Returned("none", <<>>, NoErr)
    /\ migrator = NoMigrator
    /\ out = Idle
    /\ graphFrom = "none"
    /\ goroutines = <<>>
    /\ crashed = FALSE

TraversalNext ==
    \/ \E o \in OptionChoices(app) : NewRequestMigration(o)
    \/ \E entries \in RegisterChoices(app) : Register(entries)
    \/ Build
    \/ \E header \in HeaderChoices(app) : For(header)
    \/ \E in \in TraversalChoices(migrator.userVersion) : MigrateForwardCall(in)
    \/ MigrateBackwardCall

Traversal == TraversalInit /\ [][TraversalNext]_vars

(***************************************************************************)
(* Goroutines that share one RequestMigration, as in Test_ConcurrentAccess *)
(* ("concurrent registration and use"): registrars that each call          *)
(* rm.Register, one goroutine that calls rm.Build, and request handlers    *)
(* that call rm.For, Unmarshal and Marshal.  A step is one access to the   *)
(* fields of rm.  RequestMigration holds no mutex: only rm.graphCache, a   *)
(* sync.Map, synchronises its readers and writers.                         *)
(***************************************************************************)
\* The goroutines that call Register.
MaxRegistrars == 2

Registrars == {<<"register", i>> : i \in 1..MaxRegistrars}
Builder == <<"build", 1>>

\* The goroutines that serve a request each, as the goroutines of
\* "concurrent lazy fallback is safe" do, and the first of them.
MaxHandlers == 2

Handlers == {<<"request", i>> : i \in 1..MaxHandlers}
Handler == <<"request", 1>>

\* A goroutine: the statement it is about to execute (function:line), the
\* argument of its call, and its locals: the slice header it loaded, the
\* version of its Migrator, the registry each of its graph builds read, the
\* migration functions its Unmarshal and its Marshal invoked, and the frames
\* of its calls of HasMigrations.
Goroutine(pc, arg) ==
    [pc |-> pc, arg |-> arg, snapshot |-> <<>>, userVersion |-> "",
     saw |-> {}, unmarshalled |-> {}, marshalled |-> {}, stack |-> <<>>]

\* What the registrars register.
ConcurrentEntries ==
    { Migration("2023-03-01", "AddressString", "addressStringMigration"),
      Migration("2023-02-01", "AddressString", "chainMigrationV2") }

\* The request of the handler: its version header, the target of its
\* Unmarshal and the value of its Marshal.
ConcurrentHeaders == {"2023-01-01"}
HandlerInput == Input("*CustomUser", plainEncode(CustomUserOf("start")))
HandlerValue == PtrVal("*CustomUser", CustomUserOf("start"))

\* The fields of rm that goroutines read and write without synchronisation,
\* and what the calls of one goroutine after another keep.
sharedVars == <<versions, migrations, graphCache, built, err>>
callVars == <<app, ctor, opts, registerCalls, requests, ret, migrator, out, graphFrom>>

\* rm after NewRequestMigration, and the goroutines at their first statement.
ConcurrentInit ==
    /\ app = "chain"
    /\ ctor = "ok"
    /\ opts = Options("2023-03-01", DateFormat)
    /\ versions = <<initialVersion(DateFormat)>>
    /\ migrations = <<>>
    /\ graphCache = <<>>
    /\ built = FALSE
    /\ err = NoErr
    /\ registerCalls = 0
    /\ requests = 0
    /\ ret = Returned("NewRequestMigration", Options("2023-03-01", DateFormat), NoErr)
    /\ migrator = NoMigrator
    /\ out = Idle
    /\ graphFrom = "none"
    /\ crashed = FALSE
    /\ \E entries \in [Registrars -> ConcurrentEntries], header \in ConcurrentHeaders :
          goroutines =
             [g \in Registrars \cup {Builder} \cup Handlers |->
                 CASE g \in Registrars -> Goroutine("Register:737", entries[g])
                   [] g = Builder -> Goroutine("Build:760", <<>>)
                   [] OTHER -> Goroutine("For:128", header)]

\* The goroutine g is about to execute the statement pc.
at(g, pc) == ~crashed /\ g \in DOMAIN goroutines /\ goroutines[g].pc = pc

goto(g, pc) == goroutines' = [goroutines EXCEPT ![g].pc = pc]

\* The fields of rm that the statement at pc reads ("r") and writes ("w").
Access(pc) ==
    CASE pc \in {"Register:737", "Build:760"} -> {<<"err", "r">>}
      [] pc \in {"Register:741", "Build:764", "For:128"} -> {<<"built", "r">>}
      [] pc = "Register:742" -> {<<"err", "w">>}
      [] pc = "registerTypeMigration:257" -> {<<"versions", "r">>}
      [] pc = "registerTypeMigration:265" -> {<<"versions", "r">>}
      [] pc = "registerTypeMigration:265.store" -> {<<"versions", "w">>}
      [] pc = "registerTypeMigration:268" -> {<<"migrations", "w">>}
      [] pc = "Build:768" -> {<<"versions", "w">>}
      [] pc \in {"Build:777", "Unmarshal:406", "Marshal:358"} ->
            {<<"versions", "r">>, <<"migrations", "r">>}
      [] pc = "Build:781" -> {<<"built", "w">>}
      [] OTHER -> {}

\* Two goroutines are about to access the same field, one of them writing.
Conflict(g, h) ==
    \E a \in Access(goroutines[g].pc), b \in Access(goroutines[h].pc) :
        a[1] = b[1] /\ "w" \in {a[2], b[2]}

DataRace == \E g, h \in DOMAIN goroutines : g # h /\ Conflict(g, h)

\* if rm.err != nil { return rm }
RegisterCheckErr(g) ==
    /\ at(g, "Register:737")
    /\ goto(g, IF err # NoErr THEN "done" ELSE "Register:741")
    /\ UNCHANGED <<sharedVars, callVars, crashed>>

\* if rm.built { ... }
RegisterCheckBuilt(g) ==
    /\ at(g, "Register:741")
    /\ goto(g, IF built THEN "Register:742" ELSE "registerTypeMigration:257")
    /\ UNCHANGED <<sharedVars, callVars, crashed>>

\* rm.err = ErrAlreadyBuilt; return rm
RegisterSetErr(g) ==
    /\ at(g, "Register:742")
    /\ err' = ErrAlreadyBuilt
    /\ goto(g, "done")
    /\ UNCHANGED <<versions, migrations, graphCache, built, callVars, crashed>>

\* for _, v := range rm.versions { if v.Value == version { versionKnown = true } }
RegisterFindVersion(g) ==
    /\ at(g, "registerTypeMigration:257")
    /\ goto(g, IF \E i \in 1..Len(versions) : versions[i] = goroutines[g].arg.version
               THEN "registerTypeMigration:268"
               ELSE "registerTypeMigration:265")
    /\ UNCHANGED <<sharedVars, callVars, crashed>>

\* append(rm.versions, ...): the load of the slice
RegisterLoadVersions(g) ==
    /\ at(g, "registerTypeMigration:265")
    /\ goroutines' = [goroutines EXCEPT ![g].pc = "registerTypeMigration:265.store",
                                        ![g].snapshot = versions]
    /\ UNCHANGED <<sharedVars, callVars, crashed>>

\* rm.versions = append(...): the store of the slice that was loaded
RegisterStoreVersions(g) ==
    /\ at(g, "registerTypeMigration:265.store")
    /\ versions' = Append(goroutines[g].snapshot, goroutines[g].arg.version)
    /\ goto(g, "registerTypeMigration:268")
    /\ UNCHANGED <<migrations, graphCache, built, err, callVars, crashed>>

\* rm.migrations[t] = make(...); rm.migrations[t][version] = m
RegisterStoreMigration(g) ==
    /\ at(g, "registerTypeMigration:268")
    /\ migrations' = registerTypeMigration(versions, migrations, goroutines[g].arg.version,
                                           goroutines[g].arg.t,
                                           goroutines[g].arg.migration).migrations
    /\ goto(g, "done")
    /\ UNCHANGED <<versions, graphCache, built, err, callVars, crashed>>

\* The runtime finds a map written while another goroutine reads or writes
\* it: "fatal error: concurrent map writes" (or "... map read and map write").
MapFault(g) ==
    /\ at(g, "registerTypeMigration:268")
    /\ \E h \in DOMAIN goroutines : h # g /\ Conflict(g, h)
    /\ crashed' = TRUE
    /\ UNCHANGED <<sharedVars, callVars, goroutines>>
\* if rm.err != nil { return rm.err }
BuildCheckErr(g) ==
    /\ at(g, "Build:760")
    /\ goto(g, IF err # NoErr THEN "done" ELSE "Build:764")
    /\ UNCHANGED <<sharedVars, callVars, crashed>>

\* if rm.built { return ErrAlreadyBuilt }
BuildCheckBuilt(g) ==
    /\ at(g, "Build:764")
    /\ goto(g, IF built THEN "done" ELSE "Build:768")
    /\ UNCHANGED <<sharedVars, callVars, crashed>>

\* sort.Slice(rm.versions, ...)
BuildSort(g) ==
    /\ at(g, "Build:768")
    /\ versions' = sortVersions(opts.VersionFormat, versions)
    /\ goto(g, "Build:777")
    /\ UNCHANGED <<migrations, graphCache, built, err, callVars, crashed>>

\* for t := range rm.migrations { rm.buildAndCacheGraphsForType(t, rm.versions) }
BuildGraphs(g) ==
    /\ at(g, "Build:777")
    /\ graphCache' = eagerGraphs(RM) @@ graphCache
    /\ goto(g, "Build:781")
    /\ UNCHANGED <<versions, migrations, built, err, callVars, crashed>>

\* rm.built = true
BuildSetBuilt(g) ==
    /\ at(g, "Build:781")
    /\ built' = TRUE
    /\ goto(g, "done")
    /\ UNCHANGED <<versions, migrations, graphCache, err, callVars, crashed>>

\* if !rm.built { return nil, ErrNotBuilt }; userVersion, err := rm.getUserVersion(r)
ForCheckBuilt(g) ==
    /\ at(g, "For:128")
    /\ goroutines' =
          [goroutines EXCEPT ![g].pc = IF built THEN "Unmarshal:401" ELSE "done",
                             ![g].userVersion = getUserVersion(goroutines[g].arg)]
    /\ UNCHANGED <<sharedVars, callVars, crashed>>

\* The migration functions that a traversal invoked.
Invoked(log) == {log[i].m : i \in 1..Len(log)}

\* The registry as a graph build reads it.
Seen == [versions |-> versions, migrations |-> migrations]

\* if cached, ok := m.rm.graphCache.Load(key); ok { graph = cached.(*typeGraph) }
UnmarshalLoad(g) ==
    /\ at(g, "Unmarshal:401")
    /\ IF unmarshalKey(HandlerInput.t, goroutines[g].userVersion) \in DOMAIN graphCache
       THEN goroutines' =
               [goroutines EXCEPT
                   ![g].pc = "Marshal:358",
                   ![g].unmarshalled =
                       Invoked(unmarshal(RM, graphCache, HandlerInput,
                                         goroutines[g].userVersion).log)]
       ELSE goto(g, "Unmarshal:406")
    /\ UNCHANGED <<sharedVars, callVars, crashed>>

\* graph, err = m.rm.graphBuilder.buildFromType(t, m.userVersion);
\* m.rm.graphCache.Store(key, graph); then the rest of Unmarshal
UnmarshalBuild(g) ==
    /\ at(g, "Unmarshal:406")
    /\ graphCache' =
          (unmarshalKey(HandlerInput.t, goroutines[g].userVersion)
             :> CacheGraph(buildFromType(RM, HandlerInput.t, goroutines[g].userVersion)))
          @@ graphCache
    /\ goroutines' =
          [goroutines EXCEPT
              ![g].pc = "Marshal:358",
              ![g].saw = @ \cup {Seen},
              ![g].unmarshalled =
                  Invoked(unmarshalOn(graphCache'[unmarshalKey(HandlerInput.t,
                                                               goroutines[g].userVersion)],
                                      HandlerInput).log)]
    /\ UNCHANGED <<versions, migrations, built, err, callVars, crashed>>

\* graph, err := m.rm.graphBuilder.buildFromValue(...); then the rest of Marshal
MarshalBuild(g) ==
    /\ at(g, "Marshal:358")
    /\ goroutines' =
          [goroutines EXCEPT
              ![g].pc = "done",
              ![g].saw = @ \cup {Seen},
              ![g].marshalled =
                  Invoked(marshal(RM, HandlerValue, goroutines[g].userVersion).log)]
    /\ UNCHANGED <<sharedVars, callVars, crashed>>

ConcurrentNext ==
    \/ \E g \in Registrars : RegisterCheckErr(g)
    \/ \E g \in Registrars : RegisterCheckBuilt(g)
    \/ \E g \in Registrars : RegisterSetErr(g)
    \/ \E g \in Registrars : RegisterFindVersion(g)
    \/ \E g \in Registrars : RegisterLoadVersions(g)
    \/ \E g \in Registrars : RegisterStoreVersions(g)
    \/ \E g \in Registrars : RegisterStoreMigration(g)
    \/ \E g \in Registrars : MapFault(g)
    \/ BuildCheckErr(Builder)
    \/ BuildCheckBuilt(Builder)
    \/ BuildSort(Builder)
    \/ BuildGraphs(Builder)
    \/ BuildSetBuilt(Builder)
    \/ \E g \in Handlers : ForCheckBuilt(g)
    \/ \E g \in Handlers : UnmarshalLoad(g)
    \/ \E g \in Handlers : UnmarshalBuild(g)
    \/ \E g \in Handlers : MarshalBuild(g)

Concurrent == ConcurrentInit /\ [][ConcurrentNext]_vars

(***************************************************************************)
(* graph.HasMigrations() as Marshal calls it on the graph it has built,    *)
(* one step per statement.  A call ranges over g.Fields, a Go map: the     *)
(* order of a range over a map is not specified and differs from one range *)
(* to the next, so each step of the loop takes any field that is left.     *)
(* Every call is a frame on the goroutine's stack; the runtime ends the    *)
(* process when the stack exceeds its limit.                               *)
(***************************************************************************)
\* The frames a goroutine's stack holds before the runtime ends the process.
MaxFrames == 6

\* A call of HasMigrations on the node: left are the fields its range has not
\* yet yielded.
Frame(nodes, node) == [node |-> node, left |-> DOMAIN nodes[node].Fields]

\* The frames of the goroutine g, and the innermost one.
framesOf(g) == goroutines[g].stack
top(g) == framesOf(g)[Len(framesOf(g))]

\* The fields that the range of the innermost call of g can yield next.
leftOf(g) ==
    IF g \in DOMAIN goroutines /\ framesOf(g) # <<>> THEN top(g).left ELSE {}

\* graph, err := m.rm.graphBuilder.buildFromValue(...); if !graph.HasMigrations()
called(G) ==
    [Goroutine("HasMigrations:460", G) EXCEPT !.stack = <<Frame(G.nodes, G.root)>>]

HasMigrationsCall(v) ==
    /\ migrator.bound
    /\ goroutines = <<>>
    /\ goroutines' =
          (Handler :> called(CacheGraph(buildFromValue(RM, v, migrator.userVersion))))
    /\ UNCHANGED <<sharedVars, callVars, crashed>>

\* if len(g.Migrations) > 0 { return true }: true goes up through every
\* caller's `if field.HasMigrations() { return true }`.
HasMigrationsOwn(g) ==
    /\ at(g, "HasMigrations:460")
    /\ goroutines' =
          IF Len(goroutines[g].arg.nodes[top(g).node].Migrations) > 0
          THEN [goroutines EXCEPT ![g].pc = "done", ![g].stack = <<>>, ![g].saw = {TRUE}]
          ELSE [goroutines EXCEPT ![g].pc = "HasMigrations:464"]
    /\ UNCHANGED <<sharedVars, callVars, crashed>>

\* for _, field := range g.Fields { if field.HasMigrations() ...: the range
\* yields the field under the key k, and the call on it begins.
HasMigrationsRange(g, k) ==
    /\ at(g, "HasMigrations:464")
    /\ k \in top(g).left
    /\ Len(framesOf(g)) < MaxFrames
    /\ goroutines' =
          [goroutines EXCEPT
              ![g].pc = "HasMigrations:460",
              ![g].stack =
                  Append([@ EXCEPT ![Len(@)].left = @ \ {k}],
                         Frame(goroutines[g].arg.nodes,
                               goroutines[g].arg.nodes[top(g).node].Fields[k]))]
    /\ UNCHANGED <<sharedVars, callVars, crashed>>

\* The call that the range is about to make does not fit on the stack:
\* fatal error: stack overflow.
HasMigrationsOverflow(g) ==
    /\ at(g, "HasMigrations:464")
    /\ top(g).left # {}
    /\ Len(framesOf(g)) >= MaxFrames
    /\ crashed' = TRUE
    /\ UNCHANGED <<sharedVars, callVars, goroutines>>

\* return false, after the range has yielded every field: the caller's range
\* goes on, or Marshal takes `return json.Marshal(v)`.
HasMigrationsReturn(g) ==
    /\ at(g, "HasMigrations:464")
    /\ top(g).left = {}
    /\ goroutines' =
          IF Len(framesOf(g)) = 1
          THEN [goroutines EXCEPT ![g].pc = "done", ![g].stack = <<>>, ![g].saw = {FALSE}]
          ELSE [goroutines EXCEPT ![g].stack = SubSeq(@, 1, Len(@) - 1)]
    /\ UNCHANGED <<sharedVars, callVars, crashed>>

\* The application with the cyclic types, from its construction on.
HasMigrationsInit ==
    /\ app = "cycle"
    /\ ctor = "none"
    /\ opts = NilOptions
    /\ versions = <<>>
    /\ migrations = <<>>
    /\ graphCache = <<>>
    /\ built = FALSE
    /\ err = NoErr
    /\ registerCalls = 0
    /\ requests = 0
    /\ ret = Returned("none", <<>>, NoErr)
    /\ migrator = NoMigrator
    /\ out = Idle
    /\ graphFrom = "none"
    /\ goroutines = <<>>
    /\ crashed = FALSE

HasMigrationsNext ==
    \/ \E o \in OptionChoices(app) : NewRequestMigration(o)
    \/ \E entries \in RegisterChoices(app) : Register(entries)
    \/ Build
    \/ \E header \in HeaderChoices(app) : For(header)
    \/ \E v \in MarshalChoices(app) : HasMigrationsCall(v)
    \/ HasMigrationsOwn(Handler)
    \/ \E k \in leftOf(Handler) : HasMigrationsRange(Handler, k)
    \/ HasMigrationsOverflow(Handler)
    \/ HasMigrationsReturn(Handler)

HasMigrationsRun == HasMigrationsInit /\ [][HasMigrationsNext]_vars

(***************************************************************************)
(* Properties of the traversals.                                           *)
(***************************************************************************)
\* The elements of a sequence.
Range(s) == {s[i] : i \in 1..Len(s)}

\* The versions a migration function is registered at.
RegisteredAt(m) ==
    {v \in {versions[i] : i \in 1..Len(versions)} :
        \E t \in DOMAIN migrations :
            v \in DOMAIN migrations[t] /\ migrations[t][v] = m}

\* d is a proper part of the document x.
RECURSIVE Inside(_, _)
Inside(d, x) == \E i \in 1..Len(x.c) : x.c[i] = d \/ Inside(d, x.c[i])

\* Calls k < j of the log were made by one loop over a node's own migrations.
SameLoop(log, k, j) == k < j /\ log[j].i - log[k].i = j - k

\* In the log: every call of a loop got the result of the call before it, and
\* no call was made on a part of a document an earlier call had been made on.
ChainedAfterChildren(log, dir) ==
    /\ \A j \in 1..Len(log) : log[j].dir = dir
    /\ \A j \in 2..Len(log) :
          log[j].i > 1 =>
             log[j].data = callMigration(log[j - 1].m, dir, log[j - 1].data).data
    /\ \A k, j \in 1..Len(log) : k < j => ~Inside(log[j].data, log[k].data)

\* The calls of one loop are in ascending (older = TRUE) or descending (older =
\* FALSE) order of the versions they are registered at.
VersionOrdered(log, ascending) ==
    \A k, j \in 1..Len(log) :
       SameLoop(log, k, j) =>
          \A v \in RegisteredAt(log[k].m), vv \in RegisteredAt(log[j].m) :
             (IsValid(opts.VersionFormat, v) /\ IsValid(opts.VersionFormat, vv)) =>
                IF ascending THEN isOlderThan(opts.VersionFormat, v, vv)
                ELSE isOlderThan(opts.VersionFormat, vv, v)

\* AddressString has chainMigrationV2 at 2023-02-01 and chainMigrationV3 at
\* 2023-03-01, CustomUser has none, and the caller is at 2023-01-01.
ChainForV1 ==
    /\ DOMAIN migrations = {"AddressString"}
    /\ DOMAIN migrations["AddressString"] = {"2023-02-01", "2023-03-01"}
    /\ migrations["AddressString"]["2023-02-01"] = "chainMigrationV2"
    /\ migrations["AddressString"]["2023-03-01"] = "chainMigrationV3"
    /\ migrator.userVersion = "2023-01-01"

\* The example of the chain: *CustomUser{Address: "start"} and the caller of
\* ChainForV1, without an error.
ChainExample(op) ==
    /\ ret.op = op
    /\ ret.err = NoErr
    /\ ret.arg.t = "*CustomUser"
    /\ ChainForV1

\* C1: MigrateForward, as Unmarshal runs it, migrates the children of a node
\* before it applies the node's own migrations, applies these in ascending
\* version order, each on the result of the one before; with migrations at v2
\* and v3 a caller at v1 gets "start" turned into "start -> v2 -> v3".
C1_ForwardChildrenFirstAscending ==
    ret.op = "Unmarshal" =>
       /\ ChainedAfterChildren(out.log, "forward")
       /\ VersionOrdered(out.log, TRUE)
       /\ ChainExample("Unmarshal") =>
             /\ out.doc.c[1].s = "start"
             /\ out.doc.c[1].h = <<" -> v2", " -> v3">>

\* C1 without the order of the versions: what MigrateForward does with the
\* list of migrations its node holds.
C1_ForwardTraversal ==
    ret.op = "Unmarshal" =>
       /\ ChainedAfterChildren(out.log, "forward")
       /\ ChainExample("Unmarshal") =>
             /\ out.doc.c[1].s = "start"
             /\ out.doc.c[1].h = <<" -> v2", " -> v3">>

\* Unmarshal has applied chainMigrationV3 before chainMigrationV2.
C1_NewestAppliedFirst ==
    /\ ret.op = "Unmarshal"
    /\ \E k, j \in 1..Len(out.log) :
          /\ SameLoop(out.log, k, j)
          /\ out.log[k].m = "chainMigrationV3"
          /\ out.log[j].m = "chainMigrationV2"

\* Unmarshal has run the example of the chain.
C1_ChainUnmarshalled == ChainExample("Unmarshal") /\ Len(out.log) = 2

\* What the call c of the log returned.
Output(c) == callMigration(c.m, c.dir, c.data).data

\* In the log: every call of a loop got the result of the call before it, no
\* call was made on a document that holds the result of an earlier call, and
\* none on a part of a document that an earlier call had turned into nil.
ChainedBeforeChildren(log, dir) ==
    /\ \A j \in 1..Len(log) : log[j].dir = dir
    /\ \A j \in 2..Len(log) : log[j].i > 1 => log[j].data = Output(log[j - 1])
    /\ \A k, j \in 1..Len(log) :
          k < j =>
             IF Output(log[k]).k = "null"
             THEN ~Inside(log[j].data, log[k].data)
             ELSE ~Inside(Output(log[k]), log[j].data)

\* C2: MigrateBackward, as Marshal runs it, applies the node's own migrations
\* in descending version order, each on the result of the one before, does
\* not go on into a value that has become nil, and recurses into the fields
\* and elements of the result only after that; with migrations at v2 and v3 a
\* caller at v1 gets "start" turned into "start -> v2 -> v1".
C2_BackwardOwnDescendingThenChildren ==
    ret.op = "Marshal" =>
       /\ ChainedBeforeChildren(out.log, "backward")
       /\ VersionOrdered(out.log, FALSE)
       /\ ChainExample("Marshal") =>
             /\ out.doc.c[1].s = "start"
             /\ out.doc.c[1].h = <<" -> v2", " -> v1">>

\* C2 without the order of the versions: what MigrateBackward does with the
\* list of migrations its node holds.
C2_BackwardTraversal ==
    ret.op = "Marshal" =>
       /\ ChainedBeforeChildren(out.log, "backward")
       /\ ChainExample("Marshal") =>
             /\ out.doc.c[1].s = "start"
             /\ out.doc.c[1].h = <<" -> v2", " -> v1">>

\* Marshal has applied chainMigrationV2 before chainMigrationV3.
C2_OldestAppliedFirst ==
    /\ ret.op = "Marshal"
    /\ \E k, j \in 1..Len(out.log) :
          /\ SameLoop(out.log, k, j)
          /\ out.log[k].m = "chainMigrationV2"
          /\ out.log[j].m = "chainMigrationV3"

\* Marshal has run the example of the chain.
C2_ChainMarshalled == ChainExample("Marshal") /\ Len(out.log) = 2

\* Marshal has dropped a CustomUser whose address has a migration of its own.
C2_DroppedBeforeFields ==
    /\ ret.op = "Marshal"
    /\ ret.err = NoErr
    /\ out.log # <<>>
    /\ \A j \in 1..Len(out.log) : out.log[j].m = "dropMigration"
    /\ FindMigrationsForType(RM, "AddressString", migrator.userVersion) # <<>>

(***************************************************************************)
(* Properties of the registry.                                             *)
(***************************************************************************)
\* The caller versions For can bind in this application.
CallerVersions == {getUserVersion(header) : header \in HeaderChoices(app)}

\* The migrations of type t registered at a version strictly newer than u.
NewerMigrations(t, u) ==
    IF t \notin DOMAIN migrations THEN {}
    ELSE {migrations[t][v] :
            v \in {w \in DOMAIN migrations[t] : isOlderThan(opts.VersionFormat, u, w)}}

\* r lists migrations of type t in ascending order of their versions.
AscendingFor(t, r) ==
    \A i, j \in 1..Len(r) :
       i < j =>
          \E v, vv \in DOMAIN migrations[t] :
             /\ migrations[t][v] = r[i]
             /\ migrations[t][vv] = r[j]
             /\ isOlderThan(opts.VersionFormat, v, vv)

\* C3: on a built instance FindMigrationsForType(t, callerVersion) returns
\* exactly the migrations registered for t at versions strictly newer than
\* callerVersion, none of another type, in ascending version order.
C3_FindExactlyNewerAscending ==
    built =>
       \A t \in DOMAIN migrations \cup {"CustomUser"}, u \in CallerVersions :
          LET r == FindMigrationsForType(RM, t, u) IN
          /\ {r[i] : i \in 1..Len(r)} = NewerMigrations(t, u)
          /\ AscendingFor(t, r)

\* On a built instance FindMigrationsForType returns, for the caller at the
\* initial version, the migration of 2023-03-01 before the one of 2023-02-01.
C3_NewerReturnedFirst ==
    /\ built
    /\ "AddressString" \in DOMAIN migrations
    /\ LET r == FindMigrationsForType(RM, "AddressString", "0001-01-01") IN
       \E i, j \in 1..Len(r) :
          i < j /\ r[i] = "chainMigrationV3" /\ r[j] = "chainMigrationV2"

(***************************************************************************)
(* Properties of the graphs.                                               *)
(***************************************************************************)
\* The field of the struct type t that the codec writes under key, 0 if none.
fieldOfKey(t, key) ==
    IF \E i \in 1..NumField(t) : jsonKey(Field(t, i)) = key
    THEN CHOOSE i \in 1..NumField(t) : jsonKey(Field(t, i)) = key
    ELSE 0

\* The marks the migrations ms leave on a node, one after the other.
Marks(ms, dir) == [i \in 1..Len(ms) |-> MigrationSuffix(ms[i], dir)]

\* The document d of static type t with the migrations that apply to the
\* caller u applied at every occurrence of a type that has some: the
\* reference the traversals are compared with.  It follows the types of the
\* fields down the document and needs no graph.
RECURSIVE MigratedEverywhere(_, _, _, _)
MigratedEverywhere(t0, d, u, dir) ==
    LET t == derefAll(t0)
        ms == FindMigrationsForType(RM, t, u)
        own == IF dir = "forward" THEN forwardOrder(ms) ELSE backwardOrder(ms)
        inner ==
          CASE d.k = "object" /\ Kind(t) = "struct" ->
                 [i \in 1..Len(d.c) |->
                    IF fieldOfKey(t, d.n[i]) = 0 THEN d.c[i]
                    ELSE MigratedEverywhere(Field(t, fieldOfKey(t, d.n[i])).Type,
                                            d.c[i], u, dir)]
            [] d.k = "array" /\ Kind(t) \in {"slice", "array"} ->
                 [i \in 1..Len(d.c) |-> MigratedEverywhere(Elem(t), d.c[i], u, dir)]
            [] OTHER -> d.c
    IN IF d.k = "null" THEN d
       ELSE [d EXCEPT !.c = inner, !.h = @ \o Marks(own, dir)]

\* Every registered migration returns its argument with its mark.
OnlyMarking ==
    \A t \in DOMAIN migrations :
       \A v \in DOMAIN migrations[t] :
          /\ MigrationBehaviour(migrations[t][v], "forward") = "append"
          /\ MigrationBehaviour(migrations[t][v], "backward") = "append"

\* The last call was a Marshal or an Unmarshal, without error, of a payload
\* whose type has no interface field: its graph comes from buildFromType.
StaticPayloadDone ==
    /\ ret.op \in {"Marshal", "Unmarshal"}
    /\ ret.err = NoErr
    /\ ~typeHasInterfaceFields(ret.arg.t)
    /\ OnlyMarking

\* C4: whatever the type graph (a type that refers to itself directly, through
\* a collection or through another type) and whatever the order of the fields,
\* the graph of buildFromType leads to every occurrence of a type that has an
\* applicable migration: Marshal and Unmarshal apply the migration at every
\* occurrence in the payload, at any depth.
C4_EveryOccurrenceMigrated ==
    StaticPayloadDone =>
       canonical(out.doc) =
          IF ret.op = "Marshal"
          THEN canonical(MigratedEverywhere(ret.arg.t, plainEncode(ret.arg),
                                            migrator.userVersion, "backward"))
          ELSE canonical(MigratedEverywhere(ret.arg.t, ret.arg.data,
                                            migrator.userVersion, "forward"))

\* Marshal of Alice (in Engineering, with Bob, who is in Design) with a
\* migration registered for CyclicWorkspace only: Engineering was migrated,
\* Design, the workspace of the user inside the workspace, was not.
C4_InnerWorkspaceMissed ==
    /\ ret.op = "Marshal"
    /\ ret.err = NoErr
    /\ ret.arg = DeepUser
    /\ DOMAIN migrations = {"CyclicWorkspace"}
    /\ out.doc.c[2].h = <<"title->name">>
    /\ out.doc.c[2].c[2].c[1].c[2].k = "object"
    /\ out.doc.c[2].c[2].c[1].c[2].h = <<>>

\* The types walkType goes to from t: the element of a slice or an array,
\* the types of the fields of a struct, each behind one pointer at most.
Step(t) ==
    LET under(x) == IF Kind(x) = "ptr" THEN Elem(x) ELSE x IN
    CASE Kind(t) \in {"slice", "array"} -> {under(Elem(t))}
      [] Kind(t) = "struct" -> {under(Field(t, i).Type) : i \in 1..NumField(t)}
      [] OTHER -> {}

RECURSIVE Closure(_)
Closure(S) ==
    LET more == S \cup UNION {Step(t) : t \in S}
    IN IF more = S THEN S ELSE Closure(more)

\* The distinct types reachable from the root t of a build.
ReachableTypes(t) ==
    Closure({IF Kind(dereferenceToLastPtr(t)) = "ptr"
             THEN Elem(dereferenceToLastPtr(t)) ELSE dereferenceToLastPtr(t)})

\* The types buildFromType is called with in this application: the registered
\* types (Build) and the types of the payloads (Marshal, Unmarshal).
BuildRoots ==
    DOMAIN migrations \cup {v.t : v \in MarshalChoices(app)}
                      \cup {in.t : in \in UnmarshalChoices(app)}

RECURSIVE ValueTypes(_)
ValueTypes(v) == {v.t} \cup UNION {ValueTypes(v.c[i]) : i \in 1..Len(v.c)}

\* The types reachable from the payload of the last Marshal or Unmarshal: from
\* its type and, for Marshal, from the types of the values it holds.
PayloadTypes ==
    IF ret.op = "Marshal"
    THEN UNION {ReachableTypes(t) : t \in ValueTypes(ret.arg)}
    ELSE ReachableTypes(ret.arg.t)

\* No migration at a version strictly newer than the caller's is reachable
\* from the payload.
NothingNewerReachable ==
    \A t \in PayloadTypes : NewerMigrations(t, migrator.userVersion) = {}

\* C6: when no migration registered at a version strictly newer than the
\* caller's is reachable from the payload's type, Marshal returns exactly the
\* plain encoding of the value, Unmarshal decodes the document as it is, and
\* no migration function is invoked.
C6_PlainWhenNothingNewer ==
    (/\ ret.op \in {"Marshal", "Unmarshal"}
     /\ ret.err # ErrNotPointer
     /\ NothingNewerReachable) =>
       /\ ret.err = NoErr
       /\ out.log = <<>>
       /\ out.doc = IF ret.op = "Marshal" THEN plainEncode(ret.arg) ELSE ret.arg.data

\* Marshal for a caller at the current version, 2023-03-01, has invoked the
\* migration that is registered at the version not-a-date.
C6_MigratedAtCurrentVersion ==
    /\ ret.op = "Marshal"
    /\ migrator.userVersion = opts.CurrentVersion
    /\ NothingNewerReachable
    /\ out.log # <<>>
    /\ \A j \in 1..Len(out.log) : RegisteredAt(out.log[j].m) = {"not-a-date"}

\* The struct with a statically-typed Content field of type t.
StaticTwin(t) ==
    CASE t = "EndpointResponse" -> "*StaticOne"
      [] t = "[]EndpointResponse" -> "*StaticMany"
      [] t = "[]*EndpointResponse" -> "*StaticPtrs"
      [] t = "[]*PagedResponse" -> "*StaticPaged"
      [] t = "UnregisteredType" -> "*StaticNone"

\* The last call was Marshal of a *PagedResponse; Held is what its Content
\* field, of type interface{}, holds.
PagedMarshalled ==
    /\ ret.op = "Marshal"
    /\ ret.err = NoErr
    /\ ret.arg.t = "*PagedResponse"
Held == ret.arg.c[1].c[1]

\* C7: on Marshal an interface field that holds a value of a registered type,
\* or a slice of values or of pointers to values of it, is migrated exactly
\* as a statically-typed field of that type is, for every element of the
\* slice; a value of an unregistered type is emitted unchanged; a nil
\* interface field is emitted as null and no migration is invoked for it.
C7_InterfaceFieldAsStatic ==
    PagedMarshalled =>
       IF IsNilValue(Held)
       THEN /\ out.doc.c[1] = JNull
            /\ \A j \in 1..Len(out.log) : out.log[j].data.k = "object"
                                          /\ "content" \in Range(out.log[j].data.n)
       ELSE LET x == Held.c[1]
                twin == marshal(RM, StaticOf(StaticTwin(x.t), x), migrator.userVersion)
            IN /\ canonical(out.doc.c[1]) = canonical(twin.doc.c[1])
               /\ (\A t \in ReachableTypes(x.t) : t \notin DOMAIN migrations) =>
                     canonical(out.doc.c[1]) = canonical(plainEncode(x))

\* Marshal of PagedResponse{Content: []*PagedResponse{nil, &PagedResponse{}}}
\* with a migration for PagedResponse: the element behind the interface field
\* is not migrated, the same element in the statically-typed field is.
C7_SliceElementMissed ==
    /\ PagedMarshalled
    /\ ~IsNilValue(Held)
    /\ Held.c[1] = NilThenPaged
    /\ out.doc.c[1].c[2].k = "object"
    /\ out.doc.c[1].c[2].h = <<>>
    /\ marshal(RM, StaticOf("*StaticPaged", NilThenPaged),
               migrator.userVersion).doc.c[1].c[2].h = <<"paged.backward">>

(***************************************************************************)
(* Properties of the configuration: NewRequestMigration, Register, Build.  *)
(***************************************************************************)
\* Built-in primitives, unnamed slices and maps, interface{} and error.
DisallowedTypes == {"string", "int", "[]string", "map[string]string", "interface{}", "error"}

\* A user-named alias of a primitive, a named struct, a named slice, a named
\* map.
NamedTypes == {"AddressString", "CustomUser", "NamedSlice", "NamedMap"}

\* The first entry of a disallowed type in the arguments of Register, or one
\* more than their number.
FirstDisallowed(entries) ==
    IF \E i \in 1..Len(entries) : entries[i].t \in DisallowedTypes
    THEN CHOOSE i \in 1..Len(entries) :
            /\ entries[i].t \in DisallowedTypes
            /\ \A j \in 1..(i - 1) : entries[j].t \notin DisallowedTypes
    ELSE Len(entries) + 1

\* The step is a Register call on an instance that has no error and is not
\* built.
RegisterStep ==
    /\ registerCalls' = registerCalls + 1
    /\ err = NoErr
    /\ ~built

\* The entry e is in the registry ms.
Stored(ms, e) ==
    /\ e.t \in DOMAIN ms
    /\ e.version \in DOMAIN ms[e.t]
    /\ ms[e.t][e.version] = e.migration

Malformed(o) ==
    \/ o.isNil
    \/ o.CurrentVersion \in {"", " "}
    \/ o.VersionFormat \notin {DateFormat, SemverFormat}

\* The errors of the configuration.
ConfigurationErrors ==
    {ErrNilOptions, ErrCurrentVersionCannotBeEmpty, ErrInvalidVersionFormat,
     ErrNativeTypeMigration}

C10_UnparseableVersionRejected ==
    (ctor = "ok" /\ opts.VersionFormat \in {DateFormat, SemverFormat}) =>
       /\ \A i \in 1..Len(versions) : Parse(opts.VersionFormat, versions[i]) # -1
       /\ \A t \in DOMAIN migrations :
             \A v \in DOMAIN migrations[t] : Parse(opts.VersionFormat, v) # -1
       /\ (/\ ret.op = "Register"
           /\ \E i \in 1..Len(ret.arg) :
                 Parse(opts.VersionFormat, ret.arg[i].version) = -1) =>
             err # NoErr

\* Register has stored a migration at the version not-a-date, with no error,
\* and Build has succeeded.
C10_UnparseableVersionStored ==
    /\ opts.VersionFormat = DateFormat
    /\ "not-a-date" \in Range(versions)
    /\ "AddressString" \in DOMAIN migrations
    /\ "not-a-date" \in DOMAIN migrations["AddressString"]
    /\ err = NoErr
    /\ built

(***************************************************************************)
(* Properties of binding a request.                                        *)
(***************************************************************************)
\* The caller's version string parses in the configured format.
CallerParses(userVersion) == Parse(opts.VersionFormat, userVersion) # -1

\* C11: For returns an error and no Migrator when the caller's version string
\* does not parse in the configured format, so the Migrator of every state is
\* bound to a version that parses and no Marshal or Unmarshal has run with an
\* unparseable caller version.
C11_UnparseableCallerRejected ==
    /\ (ret.op = "For" /\ ~CallerParses(getUserVersion(ret.arg))) => ret.err # NoErr
    /\ migrator.bound => CallerParses(migrator.userVersion)

\* A Marshal applied migrations for a caller whose version does not parse.
C11_MarshalledForUnparseableCaller ==
    /\ migrator.bound
    /\ migrator.userVersion = "not-a-date"
    /\ out.op = "Marshal"
    /\ out.err = NoErr
    /\ Len(out.log) > 0

(***************************************************************************)
(* Properties of failing migrations.                                       *)
(***************************************************************************)
\* The migration function of this call returned an error.
Failed(call) == MigrationBehaviour(call.m, call.dir) = "error"

\* C12: when a migration function returns an error during Marshal or
\* Unmarshal, it is the last migration function invoked, the operation returns
\* that error, and it hands nothing back: Marshal returns no bytes and
\* Unmarshal decodes nothing into its target.  (The value given to Marshal
\* and the bytes given to Unmarshal are only read: the migrations work on the
\* document that readBody or json.Unmarshal decoded from them.)
C12_FailFast ==
    out.op \in {"Marshal", "Unmarshal"} =>
        \A i \in 1..Len(out.log) :
            Failed(out.log[i]) =>
                /\ i = Len(out.log)
                /\ out.err = ErrMigration
                /\ out.doc = JNull
                /\ ret.op = out.op => ret.err = ErrMigration

\* An Unmarshal failed at the first of the two migrations registered for
\* CustomUser: the second one was not invoked.
C12_FailedBeforeLaterMigration ==
    /\ out.op = "Unmarshal"
    /\ ret.op = "Unmarshal"
    /\ ret.err = ErrMigration
    /\ "CustomUser" \in DOMAIN migrations
    /\ "2023-03-01" \in DOMAIN migrations["CustomUser"]
    /\ migrator.userVersion = "2023-01-01"
    /\ Len(out.log) = 1
    /\ out.log[1].m = "failingMigration"

(***************************************************************************)
(* Properties of goroutines that share one instance.                       *)
(***************************************************************************)
\* C13: concurrent Register, Build, Marshal and Unmarshal calls on one shared
\* RequestMigration never race and never end in a fatal error: in no state
\* are two goroutines about to access rm.versions, rm.migrations, rm.built
\* or rm.err, at least one of them writing, with nothing that orders them.
C13_NoDataRaceNoPanic == ~DataRace /\ ~crashed

\* Two registrars are both about to write rm.migrations.
C13_TwoRegistrarsWriteMigrations ==
    \E g, h \in Registrars :
        /\ g # h
        /\ goroutines[g].pc = "registerTypeMigration:268"
        /\ goroutines[h].pc = "registerTypeMigration:268"

\* The version sequence is in the order of its format.
SortedVersions(vs) ==
    \A i, j \in 1..Len(vs) : i < j => ~versionLess(opts.VersionFormat, vs[j], vs[i])

\* Every migration of the registry is stored under a version of its sequence.
VersionsComplete(rm) ==
    \A t \in DOMAIN rm.migrations :
        \A v \in DOMAIN rm.migrations[t] : \E i \in 1..Len(rm.versions) : rm.versions[i] = v

\* C14: a registration that runs while a request is in flight is all or
\* nothing for the request: every registry that a graph build of the request
\* reads has its versions sorted and holds no migration whose version is
\* missing from the sequence, and the Unmarshal and the Marshal of the
\* request invoke the same migrations of the type.
C14_RegistrationAllOrNothing ==
    Handler \in DOMAIN goroutines =>
        /\ \A rm \in goroutines[Handler].saw :
              SortedVersions(rm.versions) /\ VersionsComplete(rm)
        /\ goroutines[Handler].pc = "done" =>
              goroutines[Handler].unmarshalled = goroutines[Handler].marshalled

\* The request decoded its body with no migration and encoded its response
\* with the migration that a registrar stored in between.
C14_MigrationAppearedMidRequest ==
    /\ Handler \in DOMAIN goroutines
    /\ goroutines[Handler].pc = "done"
    /\ goroutines[Handler].unmarshalled = {}
    /\ goroutines[Handler].marshalled = {"addressStringMigration"}

(***************************************************************************)
(* Properties of the lifecycle: Register, Build, For.                      *)
(***************************************************************************)
\* The migrations registered for AddressString under a version that is newer
\* than the caller's, both versions parsing in the configured format.
NewerAddressMigrations ==
    IF "AddressString" \notin DOMAIN migrations THEN {}
    ELSE { migrations["AddressString"][v] :
              v \in { w \in DOMAIN migrations["AddressString"] :
                        /\ Parse(opts.VersionFormat, w) # -1
                        /\ CallerParses(migrator.userVersion)
                        /\ Parse(opts.VersionFormat, w) >
                              Parse(opts.VersionFormat, migrator.userVersion) } }

\* The last call was a Marshal or Unmarshal of a CustomUser payload that
\* returned a document, no migration function having returned nil data.
ServedCustomUser ==
    /\ app \in {"chain", "versions", "types"}
    /\ ret.op \in {"Marshal", "Unmarshal"}
    /\ ret.op = out.op
    /\ out.err = NoErr
    /\ \A i \in 1..Len(out.log) :
          MigrationBehaviour(out.log[i].m, out.log[i].dir) # "nil"

Instance == <<versions, migrations, graphCache, built, err>>

\* A step that is a call of Build.
BuildStep == ret'.op = "Build" /\ ret' # ret

RegisterCall == registerCalls' = registerCalls + 1

DynamicTypes == {"PagedResponse"}

UnmarshalOfEagerType ==
    /\ built
    /\ ret.op = "Unmarshal"
    /\ Kind(ret.arg.t) = "ptr"
    /\ Elem(ret.arg.t) \in DOMAIN migrations \ DynamicTypes
    /\ <<Elem(ret.arg.t), migrator.userVersion>> \in DOMAIN graphCache

\* C19: Unmarshal probes the cache under (type identity, caller version)
\* before it builds: decoding into a *T for a registered type T and a known
\* version finds the entry that the eager build stored for (T, v) and builds
\* no graph.
C19_UnmarshalFindsEagerEntry ==
    UnmarshalOfEagerType => graphFrom = "cache"

\* The part of C19 about the lazy path: an Unmarshal builds only when there
\* is no entry under its key, stores what it built, and finds it next time.
C19_LazyBuildOnce ==
    ret.op = "Unmarshal" /\ ret.err # ErrNotPointer =>
        unmarshalKey(ret.arg.t, migrator.userVersion) \in DOMAIN graphCache

\* An Unmarshal into *CustomUser built a graph and stored it under
\* (*CustomUser, v) although the eager build had stored one under
\* (CustomUser, v).
C19_EagerEntryMissed ==
    /\ UnmarshalOfEagerType
    /\ ret.arg.t = "*CustomUser"
    /\ graphFrom = "build"
    /\ <<"*CustomUser", migrator.userVersion>> \in DOMAIN graphCache

\* The last call was a Marshal of a value whose type has no dynamically-typed
\* field, for a caller version under which the cache holds a graph of it.
MarshalOfCachedType ==
    /\ ret.op = "Marshal"
    /\ derefAll(ret.arg.t) \notin DynamicTypes
    /\ \E key \in DOMAIN graphCache :
          /\ derefAll(key[1]) = derefAll(ret.arg.t)
          /\ key[2] = migrator.userVersion

\* C20: a Marshal of a value whose type holds no dynamically-typed field
\* takes its graph from the cache when the cache has an entry for the type
\* and the caller's version, and builds none.
C20_MarshalUsesCachedGraph ==
    MarshalOfCachedType => graphFrom = "cache"

\* A Marshal of a *CustomUser built its graph although Build had stored one
\* for CustomUser at the caller's version.
C20_MarshalBuiltAgain ==
    /\ MarshalOfCachedType
    /\ ret.arg.t = "*CustomUser"
    /\ ret.err = NoErr
    /\ <<"CustomUser", migrator.userVersion>> \in DOMAIN graphCache
    /\ graphFrom = "build"

(***************************************************************************)
(* Properties of lazy builds that run side by side.                        *)
(***************************************************************************)
\* The graph a static build of the key returns against the registry as it is.
FreshBuild(key) == CacheGraph(buildFromType(RM, key[1], key[2]))

\* The key the handlers' Unmarshal looks up and stores under.
LazyKey(g) == unmarshalKey(HandlerInput.t, goroutines[g].userVersion)

\* C21: in every state of the cache that interleaved lazy builds lead to, the
\* entry stored under a (type, version) key by a lazy build equals the graph
\* that a new static build of that key returns against the registry; when two
\* handlers miss on the same key and both build and store, the entry that is
\* left is such a graph whichever store came last.
C21_LazyEntryEqualsFreshBuild ==
    \A g \in Handlers :
       (goroutines[g].saw # {} /\ LazyKey(g) \in DOMAIN graphCache) =>
          graphCache[LazyKey(g)] = FreshBuild(LazyKey(g))

\* Both handlers missed on (*CustomUser, 2023-01-01) and built: the first one
\* read a registry without migrations, the second one, after a registrar that
\* had passed the check of rm.built stored its migration, read the registry
\* with it.  Their graphs differ, and the entry that is left is not the graph
\* of a new build.
C21_TwoMissesTwoGraphs ==
    /\ built
    /\ \A g \in Handlers : Cardinality(goroutines[g].saw) >= 1
    /\ \E g, h \in Handlers :
          /\ goroutines[g].unmarshalled = {}
          /\ goroutines[h].unmarshalled # {}
    /\ \E g \in Handlers :
          /\ LazyKey(g) \in DOMAIN graphCache
          /\ graphCache[LazyKey(g)] # FreshBuild(LazyKey(g))

(***************************************************************************)
(* Properties of the version sequence.                                     *)
(***************************************************************************)
\* C22: in every state of a RequestMigration, after each registration as well
\* as after Build, rm.versions is sorted ascending in the configured format
\* and its first, oldest element is the initial zero version.
C22_VersionsSortedZeroFirst ==
    (ctor = "ok" /\ opts.VersionFormat \in {DateFormat, SemverFormat}) =>
       /\ Len(versions) >= 1
       /\ versions[1] = initialVersion(opts.VersionFormat)
       /\ SortedVersions(versions)

\* Build has succeeded and left 2023-02-01 after 2023-03-01: not-a-date,
\* registered between them, compares as not less than anything, so the
\* insertion sort of Build stopped at it.
C22_UnsortedAfterBuild ==
    /\ built
    /\ err = NoErr
    /\ ret.op = "Build"
    /\ ret.err = NoErr
    /\ \E i, j \in 1..Len(versions) :
          /\ i < j
          /\ versions[i] = "2023-03-01"
          /\ versions[j] = "2023-02-01"

\* Before Build, two registrations in the order 2023-03-01, 2023-02-01 have
\* left the sequence in the order of the calls: registerTypeMigration appends.
C22_UnsortedBeforeBuild ==
    /\ ~built
    /\ ret.op = "Register"
    /\ versions = <<"0001-01-01", "2023-03-01", "2023-02-01">>

(***************************************************************************)
(* Properties of requests without a version.                               *)
(***************************************************************************)
\* The zero version of the configured format, as written.
ZeroVersion ==
    CASE opts.VersionFormat = DateFormat -> "0001-01-01"
      [] opts.VersionFormat = SemverFormat -> "v0"
      [] OTHER -> ""

\* Every migration registered for the type t.
AllMigrations(t) == {migrations[t][v] : v \in DOMAIN migrations[t]}

\* The Migrator in hand is bound to the zero version.
UnversionedCaller == built /\ migrator.bound /\ migrator.userVersion = ZeroVersion

\* C23: a request without a version header (no GetUserVersionFunc is
\* configured) is bound to the zero version, 0001-01-01 for dates and v0 for
\* semver; that version is older than every registered version that parses,
\* so FindMigrationsForType returns every migration of every registered type,
\* and Marshal and Unmarshal invoke every migration of every type reachable
\* from the payload.
C23_NoHeaderGetsEveryMigration ==
    /\ (ret.op = "For" /\ ret.err = NoErr /\ ret.arg = "") =>
          migrator.userVersion = ZeroVersion
    /\ UnversionedCaller =>
          /\ \A i \in 2..Len(versions) :
                Parse(opts.VersionFormat, versions[i]) # -1 =>
                   isOlderThan(opts.VersionFormat, migrator.userVersion, versions[i])
          /\ \A t \in DOMAIN migrations :
                Range(FindMigrationsForType(RM, t, migrator.userVersion))
                   = AllMigrations(t)
    /\ (UnversionedCaller /\ ServedCustomUser) =>
          \A t \in PayloadTypes \cap DOMAIN migrations :
             AllMigrations(t) \subseteq Invoked(out.log)

\* A request without header on a semver instance, bound to v0: its Marshal of
\* a CustomUser invoked the migration of CustomUser at v1 and the migration of
\* AddressString at v2.
C23_UnversionedSemverCaller ==
    /\ opts.VersionFormat = SemverFormat
    /\ migrator.bound
    /\ migrator.userVersion = "v0"
    /\ ret.op = "Marshal"
    /\ out.op = "Marshal"
    /\ out.err = NoErr
    /\ Invoked(out.log) = {"dummyMigration", "chainMigrationV2"}

\* A request without header on a date instance, bound to 0001-01-01: its
\* Unmarshal invoked the migrations of 2023-02-01 and of not-a-date.
C23_UnversionedDateCaller ==
    /\ opts.VersionFormat = DateFormat
    /\ migrator.bound
    /\ migrator.userVersion = "0001-01-01"
    /\ ret.op = "Unmarshal"
    /\ out.op = "Unmarshal"
    /\ out.err = NoErr
    /\ Invoked(out.log) = {"chainMigrationV2", "addressStringMigration"}

(***************************************************************************)
(* Properties of the shape of the graphs.                                  *)
(***************************************************************************)
\* The nodes that the field maps lead to from the nodes of S, S included.
RECURSIVE Below(_, _)
Below(nodes, S) ==
    LET more == UNION {{nodes[g].Fields[k] : k \in DOMAIN nodes[g].Fields} : g \in S}
    IN IF more \subseteq S THEN S ELSE Below(nodes, S \cup more)

\* The node g or one of its descendants has a migration of its own.
CarriesMigration(nodes, g) ==
    \E n \in Below(nodes, {g}) : Len(nodes[n].Migrations) > 0

\* Every entry of every field map of G leads to a node that carries a
\* migration.
Pruned(G) ==
    \A g \in 1..Len(G.nodes) :
       \A k \in DOMAIN G.nodes[g].Fields :
          CarriesMigration(G.nodes, G.nodes[g].Fields[k])

\* No type of S has a migration for the caller version u.
NoneApplicable(S, u) == \A t \in S : FindMigrationsForType(RM, t, u) = <<>>

\* The types a walk of the value v can reach.
ValueReach(v) == UNION {ReachableTypes(t) : t \in ValueTypes(v)}

\* G is pruned, and its root has no migrations when no type of S has one.
WellPruned(G, S, u) ==
    /\ Pruned(G)
    /\ NoneApplicable(S, u) =>
          /\ ~HasMigrations(G.nodes, G.root)
          /\ G.nodes[G.root].Fields = <<>>

\* C24: in every graph that buildFromType or buildFromValue returns, a node is
\* in a parent's field map only if it or one of its descendants has a
\* migration of its own; the graph of a type none of whose reachable types has
\* an applicable migration has HasMigrations false at its root.
C24_OnlyMigratedChildrenAttached ==
    ctor = "ok" =>
       /\ \A t \in BuildRoots, u \in CallerVersions :
             WellPruned(buildFromType(RM, t, u), ReachableTypes(t), u)
       /\ \A v \in MarshalChoices(app), u \in CallerVersions :
             WellPruned(buildFromValue(RM, v, u), ValueReach(v), u)
       /\ \A key \in DOMAIN graphCache : Pruned(graphCache[key])

\* Unmarshal into a *StaticOne has stored the graph of StaticOne, built with a
\* migration for EndpointResponse: the field content is attached and leads to
\* the node with the migration, the field page is not attached.
C24_PageFieldPruned ==
    /\ ret.op = "Unmarshal"
    /\ \E key \in DOMAIN graphCache :
          /\ key[1] = "*StaticOne"
          /\ LET G == graphCache[key] IN
             /\ DOMAIN G.nodes[G.root].Fields = {"content"}
             /\ G.nodes[G.nodes[G.root].Fields["content"]].Migrations
                   = <<"endpointMigration">>

(***************************************************************************)
(* Properties of a forward traversal followed by a backward traversal.     *)
(***************************************************************************)
\* For every forward call of the log, the migration's backward function gives
\* the argument back from the result.
InverseOnCalls(log) ==
    \A i \in 1..Len(log) :
       log[i].dir = "forward" =>
          canonical(callMigration(log[i].m, "backward",
                                  callMigration(log[i].m, "forward", log[i].data).data).data)
             = canonical(log[i].data)

C25_ThreeMigrationsUndone ==
    /\ ret.op = "MigrateBackward"
    /\ out.err = NoErr
    /\ ret.arg.t = "User"
    /\ Len(out.log) = 6
    /\ [i \in 1..6 |-> out.log[i].m]
          = <<"ProfileMigration", "nameMigration", "renameMigration",
              "renameMigration", "nameMigration", "ProfileMigration">>
    /\ canonical(out.doc) = canonical(ret.arg.data)

(***************************************************************************)
(* Properties of interface fields inside static fields.                    *)
(***************************************************************************)
\* The last call was a Marshal, without error, of a value that holds an
\* EndpointResponse somewhere, for a caller older than the migration
\* registered for EndpointResponse.
MarshalledAnEndpoint ==
    /\ app = "paged"
    /\ ret.op = "Marshal"
    /\ out.op = "Marshal"
    /\ out.err = NoErr
    /\ "EndpointResponse" \in ValueTypes(ret.arg)
    /\ NewerMigrations("EndpointResponse", migrator.userVersion) # {}

\* C26: Marshal resolves an interface field to the type of the value it holds
\* wherever the field is in the marshalled value, also when the struct that
\* declares it is reached through a struct, pointer or slice field of an outer
\* struct, and applies the migrations of that type there.
C26_InterfaceResolvedEverywhere ==
    MarshalledAnEndpoint => "endpointMigration" \in Invoked(out.log)

\* Marshal of a StaticPaged whose Content holds a PagedResponse whose Content
\* holds an EndpointResponse, migrations being registered for PagedResponse
\* and for EndpointResponse: the migration of PagedResponse was applied to the
\* element, the migration of EndpointResponse was not applied to its content.
C26_NestedInterfaceMissed ==
    /\ MarshalledAnEndpoint
    /\ ret.arg = NestedPaged
    /\ DOMAIN migrations = {"EndpointResponse", "PagedResponse"}
    /\ Invoked(out.log) = {"pagedMigration"}
    /\ out.doc.c[1].c[1].h = <<"paged.backward">>
    /\ out.doc.c[1].c[1].c[1].h = <<>>

\* The same PagedResponse marshalled by itself: its content was migrated.
C26_TopLevelInterfaceResolved ==
    /\ MarshalledAnEndpoint
    /\ ret.arg = PagedOf(IfaceVal(EndpointOf("test-endpoint")))
    /\ DOMAIN migrations = {"EndpointResponse", "PagedResponse"}
    /\ Invoked(out.log) = {"pagedMigration", "endpointMigration"}

(***************************************************************************)
(* Properties of the keys of the field maps.                               *)
(***************************************************************************)
\* The keys encoding/json uses for the fields of the struct type t.
CodecKeys(t) == {jsonKey(Field(t, i)) : i \in 1..NumField(t)}

\* In G, the field map of every struct node has keys of the codec only.
UnderCodecKeys(G) ==
    \A g \in 1..Len(G.nodes) :
       (G.nodes[g].Type \in DOMAIN TypeTable /\ Kind(G.nodes[g].Type) = "struct") =>
          DOMAIN G.nodes[g].Fields \subseteq CodecKeys(G.nodes[g].Type)

\* The last call was a Marshal or an Unmarshal, for a caller older than the
\* migration of AddressString, of a struct with one AddressString field.
ServedTaggedUser ==
    /\ app = "tags"
    /\ ret.op \in {"Marshal", "Unmarshal"}
    /\ out.op = ret.op
    /\ out.err = NoErr
    /\ NewerMigrations("AddressString", migrator.userVersion) # {}

\* C27: both builders attach a child that has migrations under the key the
\* JSON codec uses for the field: the name of the json tag when the tag gives
\* one, the Go field name when there is no tag or the tag gives options only
\* (",omitempty"); the traversal therefore finds the field's data in the
\* decoded record and applies the child's migrations.
C27_ChildUnderCodecKey ==
    ctor = "ok" =>
       /\ \A t \in BuildRoots, u \in CallerVersions :
             UnderCodecKeys(buildFromType(RM, t, u))
       /\ \A v \in MarshalChoices(app), u \in CallerVersions :
             UnderCodecKeys(buildFromValue(RM, v, u))
       /\ ServedTaggedUser => "addressStringMigration" \in Invoked(out.log)

\* Marshal of a struct whose field Address has the tag ",omitempty": the graph
\* has the child under the key "", the document has the address under
\* "Address", and the migration was not invoked.
C27_OmitemptyFieldMissed ==
    /\ ServedTaggedUser
    /\ ret.op = "Marshal"
    /\ ret.arg = OptionalUserOf("start")
    /\ DOMAIN buildFromValue(RM, ret.arg, migrator.userVersion).nodes[1].Fields = {""}
    /\ out.doc.n = <<"Address">>
    /\ ~out.fast
    /\ out.log = <<>>

\* Marshal of the struct whose field has no tag: child and data are under
\* "Address", and the migration was invoked.
C27_UntaggedFieldFound ==
    /\ ServedTaggedUser
    /\ ret.op = "Marshal"
    /\ ret.arg = PlainUserOf("start")
    /\ out.doc.n = <<"Address">>
    /\ Invoked(out.log) = {"addressStringMigration"}

C28_BuildReturnedRecordedError ==
    /\ err = ErrNativeTypeMigration
    /\ registerCalls = 2
    /\ ret.op = "Build"
    /\ ret.err = ErrNativeTypeMigration
    /\ ~built
    /\ graphCache = <<>>

(***************************************************************************)
(* Properties of accepted registrations.                                   *)
(***************************************************************************)
\* The migration functions on the nodes of the graph G.
OnGraph(G) == UNION {Range(G.nodes[g].Migrations) : g \in 1..Len(G.nodes)}

\* C29: every registration that Register accepts takes effect.  When a
\* migration is stored for the type identity t at the version v, t being a
\* named type or a pointer to one, the graph built for t, for a caller older
\* than v, carries the migration, and a Marshal or an Unmarshal of a payload
\* that holds the type invokes it.
C29_AcceptedRegistrationTakesEffect ==
    /\ ctor = "ok" =>
          \A t \in DOMAIN migrations, u \in CallerVersions :
             NewerMigrations(t, u) \subseteq OnGraph(buildFromType(RM, t, u))
    /\ ServedCustomUser =>
          \A t \in DOMAIN migrations :
             derefAll(t) \in PayloadTypes =>
                NewerMigrations(t, migrator.userVersion) \subseteq Invoked(out.log)

\* Register accepted Migration[*CustomUser]("v2", m) and Build succeeded; for a
\* caller at v1 the graph cached under (*CustomUser, v1) has no migration, and
\* the Marshal of a *CustomUser took the fast path: m was not invoked.
C29_PointerRegistrationDead ==
    /\ err = NoErr
    /\ built
    /\ HasMigrationAt("*CustomUser", "v2")
    /\ DOMAIN migrations = {"*CustomUser"}
    /\ migrator.userVersion = "v1"
    /\ <<"*CustomUser", "v1">> \in DOMAIN graphCache
    /\ OnGraph(graphCache[<<"*CustomUser", "v1">>]) = {}
    /\ ret.op = "Marshal"
    /\ ret.arg.t = "*CustomUser"
    /\ out.err = NoErr
    /\ out.fast
    /\ out.log = <<>>

(***************************************************************************)
(* Properties of HasMigrations on cyclic graphs.                           *)
(***************************************************************************)
\* The goroutine g is inside two calls of HasMigrations on the same node: the
\* inner call can take the fields in the order the outer one did, and so can
\* every call after it.
Reentered(g) ==
    \E i, j \in 1..Len(framesOf(g)) : i < j /\ framesOf(g)[i].node = framesOf(g)[j].node

\* C30: HasMigrations terminates on every graph that the builders produce, a
\* graph whose field maps form a cycle included, whatever the order in which
\* the ranges yield the fields: no call is made on a node that an unfinished
\* call is already on, and the stack never exceeds its limit.
C30_HasMigrationsTerminates ==
    /\ ~crashed
    /\ \A g \in DOMAIN goroutines : ~Reentered(g)

\* Marshal of a NodeB with a migration registered for AddressString: the graph
\* of NodeB has no migration of its own, its field map holds tag and next,
\* and next leads back to NodeB.  Every range yielded next first: the stack is
\* full of calls on NodeB, and the process has ended.
C30_SelfLoopOverflow ==
    /\ crashed
    /\ DOMAIN migrations = {"AddressString"}
    /\ Handler \in DOMAIN goroutines
    /\ LET G == goroutines[Handler].arg IN
       /\ G.nodes[G.root].Type = "NodeB"
       /\ G.nodes[G.root].Migrations = <<>>
       /\ DOMAIN G.nodes[G.root].Fields = {"tag", "next"}
       /\ G.nodes[G.root].Fields["next"] = G.root
       /\ Len(framesOf(Handler)) = MaxFrames
       /\ \A i \in 1..Len(framesOf(Handler)) : framesOf(Handler)[i].node = G.root

\* On the same graph a range yielded tag first: the call returned true.
C30_SelfLoopReturned ==
    /\ ~crashed
    /\ DOMAIN migrations = {"AddressString"}
    /\ Handler \in DOMAIN goroutines
    /\ goroutines[Handler].pc = "done"
    /\ goroutines[Handler].saw = {TRUE}
    /\ LET G == goroutines[Handler].arg IN
       /\ G.nodes[G.root].Type = "NodeB"
       /\ G.nodes[G.root].Fields["next"] = G.root

=============================================================================
